---------------------------- MODULE Spec2Model ----------------------------
(***************************************************************************)
(* A model of the question generation engine of the Quant Finance Practice *)
(* game: the numeric and the sequence question factories, the global       *)
(* pseudo-random stream they draw from, and the test modes that build a    *)
(* session out of them.                                                    *)
(*                                                                         *)
(* Strings are TLA+ strings built by the conversions the code uses (str,   *)
(* f-strings); numbers with two decimals are integers counting hundredths. *)
(* A random draw is a raw natural number D[i] of a draw sequence D; each   *)
(* random.* call maps the raw number into its range, so the generators     *)
(* are the same operators whether the draws are arbitrary (Spec) or the    *)
(* successive outputs of the seeded global stream (SpecFactories,          *)
(* SpecSessions).                                                          *)
(***************************************************************************)
EXTENDS Integers, Sequences, FiniteSets, TLC

VARIABLES
    pc,         \* position of the caller of generate_question
    depth,      \* recursion depth of a regenerating sequence generator
    locals,     \* local variables of the sub-generator that returned
    question,   \* the Question returned by generate_question
    hashseed,   \* the process's string-hash seed (orders list(set(...)))
    rng,        \* state of the process's global `random` module
    factories,  \* the factory objects of the process
    sessions    \* the test modes (sessions), of this and of earlier runs

vars == <<pc, depth, locals, question, hashseed, rng, factories, sessions>>

genVars == <<pc, depth, locals, question>>

(***************************************************************************)
(* Bounds of the model.                                                    *)
(***************************************************************************)
\* raw values sampled from a large operand range (the lowest ones)
Span == 2
\* raw values sampled for each draw of a fraction distractor
FracSpan == 1
\* raw values sampled for a padding draw
PadSpan == 3
\* distinct string-hash seeds a process may start with
HashSeeds == 2
\* deepest regeneration recursion followed
MaxDepth == 2
\* the regenerations one call on the seeded stream may chain
MaxRecursion == 8
\* the explicit seeds a factory or a mode is constructed with: 0 .. MaxSeed - 1
MaxSeed == 2
\* the questions asked of one factory, and the cap on a session's count
MaxQuestions == 2

None == "None"

\* the element of a singleton set: {e(x) : x \in {v}} computes v once
The(S) == CHOOSE x \in S : TRUE

Min(a, b) == IF a < b THEN a ELSE b
Max(a, b) == IF a > b THEN a ELSE b
Abs(a) == IF a < 0 THEN -a ELSE a

Range(s) == {s[k] : k \in DOMAIN s}

\* the raw draws sampled from a range of n values
Sample(n, w) == 0 .. (Min(n, w) - 1)

(***************************************************************************)
(* Conversions: str(int), f"{x:.2f}", f"{x:.1f}", str.isdigit, int(str).   *)
(***************************************************************************)
DigitChars == <<"0", "1", "2", "3", "4", "5", "6", "7", "8", "9">>

RECURSIVE StrNat(_)
StrNat(n) ==
    IF n < 10 THEN DigitChars[n + 1]
    ELSE StrNat(n \div 10) \o DigitChars[(n % 10) + 1]

\* str(n) of an int
Str(n) == IF n < 0 THEN "-" \o StrNat(-n) ELSE StrNat(n)

\* f"{x:.2f}" of a number of h hundredths
Fmt2(h) ==
    LET a == Abs(h)
    IN  (IF h < 0 THEN "-" ELSE "") \o StrNat(a \div 100) \o "."
            \o DigitChars[((a \div 10) % 10) + 1] \o DigitChars[(a % 10) + 1]

\* f"{x:.1f}" of a number of t tenths
Fmt1(t) == StrNat(t \div 10) \o "." \o DigitChars[(t % 10) + 1]

\* the largest whole number a correct answer can be: the largest percentage base
MaxParsedInt == Max(20 * 20, 1000)

\* the largest two-decimal correct answer, in hundredths: 75% of 1000
MaxParsedHundredths == 750 * 100

\* the strings of digits with the integers they denote
StrTable == {<<StrNat(n), n>> : n \in 0 .. MaxParsedInt}

\* the two-decimal strings with the hundredths they denote
Fmt2Table == {<<Fmt2(h), h>> : h \in 0 .. MaxParsedHundredths}

\* str.isdigit on the strings a generator can pass
IsDigit(s) == \E e \in StrTable : e[1] = s

\* int(s) of a string of digits
ParseInt(s) == (CHOOSE e \in StrTable : e[1] = s)[2]

\* float(s), in hundredths, of a correct answer: digits, or digits "." two digits
ParseFloat(s) ==
    IF IsDigit(s) THEN 100 * ParseInt(s)
    ELSE (CHOOSE e \in Fmt2Table : e[1] = s)[2]

\* round(x / d) to the nearest integer, ties to even
RoundHalfEven(x, d) ==
    LET q == x \div d
        r == x % d
    IN  IF 2 * r < d THEN q
        ELSE IF 2 * r > d THEN q + 1
        ELSE IF q % 2 = 0 THEN q ELSE q + 1

\* f"{base / 10:.2f}" in hundredths: base / 10 is a binary float, and where the
\* decimal value is a tie the float lies on either side of it
Div10Hundredths(h, tieUp) ==
    IF h % 10 = 5 THEN (h \div 10) + (IF tieUp THEN 1 ELSE 0)
    ELSE RoundHalfEven(h, 10)

(***************************************************************************)
(* The random module: each call consumes one raw draw D[i].                *)
(***************************************************************************)
\* random.randint(a, b)
Randint(D, i, a, b) == a + (D[i] % (b - a + 1))

\* random.choice(seq)
Choice(D, i, seq) == seq[(D[i] % Len(seq)) + 1]

Swap(x, i, j) == [x EXCEPT ![i] = x[j], ![j] = x[i]]

\* random.shuffle(x): for i in reversed(range(1, len(x))): j = randbelow(i + 1);
\* x[i], x[j] = x[j], x[i].  Positions are 0-based in the code, 1-based here.
RECURSIVE ShuffleFrom(_, _, _, _)
ShuffleFrom(x, D, i, k) ==
    IF k < 1 THEN x
    ELSE ShuffleFrom(Swap(x, k + 1, (D[i] % (k + 1)) + 1), D, i + 1, k - 1)

Shuffle(x, D, i) == ShuffleFrom(x, D, i, Len(x) - 1)

\* the raw draws one shuffle of n elements consumes
ShuffleDraws(n) ==
    IF n < 2 THEN {<<>>}
    ELSE {d \in [1 .. (n - 1) -> 0 .. (n - 1)] :
            \A k \in 1 .. (n - 1) : d[k] <= n - k}

(***************************************************************************)
(* list(set(options)): the distinct strings, in an order fixed by the      *)
(* process's hash seed and not by the order of insertion.                  *)
(***************************************************************************)
RECURSIVE Dedup(_)
Dedup(s) ==
    IF s = <<>> THEN <<>>
    ELSE LET r == Dedup(SubSeq(s, 1, Len(s) - 1))
             x == s[Len(s)]
         IN  IF x \in Range(r) THEN r ELSE Append(r, x)

ListOfSet(s, h) ==
    LET u == Dedup(s)
        n == Len(u)
    IN  [k \in 1 .. n |-> u[((k - 1 + h) % n) + 1]]

\* list.index(x): the first position holding x (0-based), or ValueError
Index(s, x) ==
    IF x \in Range(s)
    THEN (CHOOSE k \in DOMAIN s : s[k] = x /\ \A j \in 1 .. (k - 1) : s[j] # x) - 1
    ELSE -1

LetterChars == <<"A", "B", "C", "D", "E", "F", "G", "H">>

\* chr(ord('A') + k)
Chr(k) == LetterChars[k + 1]

\* ord(letter) - ord('A')
Ord(letter) == (CHOOSE k \in DOMAIN LetterChars : LetterChars[k] = letter) - 1

(***************************************************************************)
(* Question: the dataclass and its __post_init__ validation.               *)
(***************************************************************************)
ValueError == [error |-> "ValueError"]

IsQuestion(q) == "prompt" \in DOMAIN q

\* Question without its __post_init__
NewQuestionUnchecked(prompt, options, answer_letter, explanation, meta) ==
    [prompt |-> prompt, options |-> options, answer_letter |-> answer_letter,
     explanation |-> explanation, meta |-> meta]

NewQuestion(prompt, options, answer_letter, explanation, meta) ==
    IF Len(options) # 5 THEN ValueError
    ELSE IF answer_letter \notin {"A", "B", "C", "D", "E"} THEN ValueError
    ELSE IF options[Ord(answer_letter) + 1] \notin Range(options) THEN ValueError
    ELSE [prompt |-> prompt, options |-> options, answer_letter |-> answer_letter,
          explanation |-> explanation, meta |-> meta]

(***************************************************************************)
(* fractions.Fraction: a reduced numerator over a positive denominator.    *)
(***************************************************************************)
RECURSIVE Gcd(_, _)
Gcd(a, b) == IF b = 0 THEN a ELSE Gcd(b, a % b)

Fraction(n, d) ==
    LET g == Gcd(Abs(n), d)
    IN  [numerator |-> n \div g, denominator |-> d \div g]

FracAdd(x, y) ==
    Fraction(x.numerator * y.denominator + y.numerator * x.denominator,
             x.denominator * y.denominator)

FracSub(x, y) ==
    Fraction(x.numerator * y.denominator - y.numerator * x.denominator,
             x.denominator * y.denominator)

FracMul(x, y) == Fraction(x.numerator * y.numerator, x.denominator * y.denominator)

\* x / y for a positive y
FracDiv(x, y) == Fraction(x.numerator * y.denominator, x.denominator * y.numerator)

FracLess(x, y) == x.numerator * y.denominator < y.numerator * x.denominator

\* the formatting of a Fraction result: whole, mixed or plain
FormatFraction(result) ==
    IF result.numerator >= result.denominator
    THEN LET whole == result.numerator \div result.denominator
             remainder == result.numerator % result.denominator
         IN  IF remainder = 0 THEN Str(whole)
             ELSE Str(whole) \o " " \o Str(remainder) \o "/" \o Str(result.denominator)
    ELSE Str(result.numerator) \o "/" \o Str(result.denominator)

\* "\frac{n}{d}"
Frac(n, d) == "\\frac{" \o Str(n) \o "}{" \o Str(d) \o "}"

(***************************************************************************)
(* NumericQuestionFactory.                                                 *)
(***************************************************************************)
GenerateNumericExplanation(prompt, correct_answer, question_type) ==
    CASE question_type = "integer_arithmetic" ->
            "Calculate the result directly using basic arithmetic operations."
      [] question_type = "decimal_arithmetic" ->
            "Perform the operation with attention to decimal places."
      [] question_type = "fraction_arithmetic" ->
            "Find common denominator and perform the operation, then simplify."
      [] question_type = "mixed_fractions" ->
            "Convert to improper fractions, operate, then convert back if needed."
      [] question_type = "percentages" ->
            "Convert percentage to decimal and multiply by the base number."
      [] OTHER -> "Apply the appropriate mathematical operation."

\* the draws the distractors of a type consume
DistractorDraws(question_type) ==
    IF question_type \in {"fraction_arithmetic", "mixed_fractions"} THEN 5 ELSE 0

\* the options before deduplication: the correct answer and the distractors of
\* the type
NumericOptions(correct_answer, question_type, D, i, env) ==
    CASE question_type = "integer_arithmetic" ->
            IF IsDigit(correct_answer)
            THEN LET base == ParseInt(correct_answer)
                 IN  <<correct_answer, Str(base + 1), Str(base - 1), Str(base * 10),
                       Str(base \div 10)>>
            ELSE <<correct_answer>>
      [] question_type = "decimal_arithmetic" ->
            The({<<correct_answer, Fmt2(base * 10),
                   Fmt2(Div10Hundredths(base, env.tieUp)),
                   Fmt2(base + 1), Fmt2(base - 1)>> :
                 base \in {ParseFloat(correct_answer)}})
      [] question_type \in {"fraction_arithmetic", "mixed_fractions"} ->
            <<correct_answer,
              "1/" \o Str(Randint(D, i, 2, 9)),
              Str(Randint(D, i + 1, 2, 9)) \o "/" \o Str(Randint(D, i + 2, 10, 20)),
              Str(Randint(D, i + 3, 1, 5)),
              Str(Randint(D, i + 4, 6, 15))>>
      [] question_type = "percentages" ->
            The({<<correct_answer, Fmt2(RoundHalfEven(base, 10)), Fmt2(base * 10),
                   Fmt2(base + 100), Fmt2(base - 100)>> :
                 base \in {ParseFloat(correct_answer)}})
      [] OTHER -> <<correct_answer>>

\* _create_numeric_question up to its padding loop: the distinct options, and
\* what the rest of the call needs
CreateNumericQuestion(prompt, correct_answer, question_type, D, i, env) ==
    [prompt |-> prompt,
     correct_answer |-> correct_answer,
     unique |-> The({ListOfSet(listed, env.hashseed) :
                     listed \in {NumericOptions(correct_answer, question_type,
                                                D, i, env)}}),
     padMax |-> 999,
     explanation |-> GenerateNumericExplanation(prompt, correct_answer, question_type),
     meta |-> [type |-> question_type, correct_answer |-> correct_answer,
               latex |-> TRUE],
     next |-> i + DistractorDraws(question_type)]

\* the padding loop left out
PadCountNone(n) == 0 * n

\* the filler values the padding loop appends to a list of n options
PadCount(n) == IF n < 5 THEN 5 - n ELSE 0

\* the padding loop drawing its fillers above padMax
PaddingOutOfRange(D, i, n, padMax) ==
    [k \in 1 .. PadCount(n) |-> Str(padMax + Randint(D, i + k - 1, 1, padMax))]

Padding(D, i, n, padMax) ==
    [k \in 1 .. PadCount(n) |-> Str(Randint(D, i + k - 1, 1, padMax))]

\* CompleteQuestion with the answer letter taken before the shuffle
CompleteQuestionLetterFirst(c, D, i) ==
    LET padded == c.unique \o Padding(D, i, Len(c.unique), c.padMax)
        i2 == i + PadCount(Len(c.unique))
        cut == SubSeq(padded, 1, Min(5, Len(padded)))
        options == Shuffle(cut, D, i2)
        k == Index(cut, c.correct_answer)
    IN  [ret |-> IF k < 0 THEN ValueError
                 ELSE NewQuestion(c.prompt, options, Chr(k), c.explanation, c.meta),
         next |-> i2 + Len(options) - 1]

\* the rest of _create_numeric_question and of _create_sequence_question: pad
\* to 5 options, cut to 5, shuffle, find the answer letter, build the Question
CompleteQuestion(c, D, i) ==
    LET padded == c.unique \o Padding(D, i, Len(c.unique), c.padMax)
        i2 == i + PadCount(Len(c.unique))
        options == Shuffle(SubSeq(padded, 1, Min(5, Len(padded))), D, i2)
        k == Index(options, c.correct_answer)
    IN  [ret |-> IF k < 0 THEN ValueError
                 ELSE NewQuestion(c.prompt, options, Chr(k), c.explanation, c.meta),
         next |-> i2 + Len(options) - 1]

\* a sub-generator's outcome: the call of _create_..._question it ends with and
\* the local variables it computed
Outcome(created, loc) == [created |-> created, next |-> created.next, locals |-> loc]

\* IntegerArithmetic without the reordering of a subtraction's operands
IntegerArithmeticUnordered(D, i, env) ==
    LET op == Choice(D, i, <<"+", "-", "*", "/">>)
        x == IF op \in {"+", "-"} THEN Randint(D, i + 1, 1, 100)
             ELSE Randint(D, i + 1, 2, 20)
        y == IF op \in {"+", "-"} THEN Randint(D, i + 2, 1, 100)
             ELSE Randint(D, i + 2, 2, 20)
        a == IF op = "/" THEN x * y ELSE x
        b == IF op = "/" THEN x ELSE y
        result == CASE op = "+" -> a + b
                    [] op = "-" -> a - b
                    [] op = "*" -> a * b
                    [] OTHER -> y
        sign == CASE op = "+" -> " + "
                  [] op = "-" -> " - "
                  [] op = "*" -> " × "
                  [] OTHER -> " ÷ "
        prompt == Str(a) \o sign \o Str(b) \o " = ?"
        correct_answer == Str(result)
    IN  Outcome(CreateNumericQuestion(prompt, correct_answer, "integer_arithmetic",
                                      D, i + 3, env),
                [fn |-> "_integer_arithmetic", op |-> op, a |-> a, b |-> b,
                 result |-> result, correct_answer |-> correct_answer])

\* _integer_arithmetic
IntegerArithmetic(D, i, env) ==
    LET op == Choice(D, i, <<"+", "-", "*", "/">>)
        x == IF op \in {"+", "-"} THEN Randint(D, i + 1, 1, 100)
             ELSE Randint(D, i + 1, 2, 20)
        y == IF op \in {"+", "-"} THEN Randint(D, i + 2, 1, 100)
             ELSE Randint(D, i + 2, 2, 20)
        a == CASE op = "+" -> x
               [] op = "-" -> Max(x, y)
               [] op = "*" -> x
               [] OTHER -> x * y
        b == CASE op = "+" -> y
               [] op = "-" -> Min(x, y)
               [] op = "*" -> y
               [] OTHER -> x
        result == CASE op = "+" -> a + b
                    [] op = "-" -> a - b
                    [] op = "*" -> a * b
                    [] OTHER -> y
        sign == CASE op = "+" -> " + "
                  [] op = "-" -> " - "
                  [] op = "*" -> " × "
                  [] OTHER -> " ÷ "
        prompt == Str(a) \o sign \o Str(b) \o " = ?"
        correct_answer == Str(result)
    IN  Outcome(CreateNumericQuestion(prompt, correct_answer, "integer_arithmetic",
                                      D, i + 3, env),
                [fn |-> "_integer_arithmetic", op |-> op, a |-> a, b |-> b,
                 result |-> result, correct_answer |-> correct_answer])

\* round(random.uniform(lo, hi), 2) in hundredths (with one decimal: in tenths)
UniformRounded(D, i, lo, hi) == lo + (D[i] % (hi - lo + 1))

DecimalArithmetic(D, i, env) ==
    LET op == Choice(D, i, <<"+", "-", "*">>)
        a == CASE op = "+" -> UniformRounded(D, i + 1, 100, 10000)
               [] op = "-" -> UniformRounded(D, i + 1, 1000, 10000)
               [] OTHER -> UniformRounded(D, i + 1, 1, 100)
        b == CASE op = "+" -> UniformRounded(D, i + 2, 100, 10000)
               [] op = "-" -> UniformRounded(D, i + 2, 100, Min(5000, a - 100))
               [] OTHER -> UniformRounded(D, i + 2, 1, 100)
        result == CASE op = "+" -> a + b
                    [] op = "-" -> a - b
                    [] OTHER -> a * b
        prompt == CASE op = "+" -> Fmt2(a) \o " + " \o Fmt2(b) \o " = ?"
                    [] op = "-" -> Fmt2(a) \o " - " \o Fmt2(b) \o " = ?"
                    [] OTHER -> Fmt1(a) \o " × " \o Fmt1(b) \o " = ?"
        correct_answer == Fmt2(result)
    IN  Outcome(CreateNumericQuestion(prompt, correct_answer, "decimal_arithmetic",
                                      D, i + 3, env),
                [fn |-> "_decimal_arithmetic", op |-> op, a |-> a, b |-> b,
                 result |-> result, correct_answer |-> correct_answer])

\* _fraction_arithmetic with the fractions of a subtraction swapped and the
\* displayed numerators and denominators left as drawn
FractionArithmeticKeepDisplay(D, i, env) ==
    LET op == Choice(D, i, <<"+", "-", "*", "/">>)
        n1 == Randint(D, i + 1, 1, 10)
        d1 == Randint(D, i + 2, 2, 12)
        n2 == Randint(D, i + 3, 1, 10)
        d2 == Randint(D, i + 4, 2, 12)
        swap == op = "-" /\ FracLess(Fraction(n1, d1), Fraction(n2, d2))
        a_num == n1
        a_den == d1
        b_num == n2
        b_den == d2
        a_frac == IF swap THEN Fraction(n2, d2) ELSE Fraction(n1, d1)
        b_frac == IF swap THEN Fraction(n1, d1) ELSE Fraction(n2, d2)
        result == CASE op = "+" -> FracAdd(a_frac, b_frac)
                    [] op = "-" -> FracSub(a_frac, b_frac)
                    [] op = "*" -> FracMul(a_frac, b_frac)
                    [] OTHER -> FracDiv(a_frac, b_frac)
        sign == CASE op = "+" -> " + "
                  [] op = "-" -> " - "
                  [] op = "*" -> " × "
                  [] OTHER -> " ÷ "
        prompt == Frac(a_num, a_den) \o sign \o Frac(b_num, b_den) \o " = ?"
        correct_answer == FormatFraction(result)
    IN  Outcome(CreateNumericQuestion(prompt, correct_answer, "fraction_arithmetic",
                                      D, i + 5, env),
                [fn |-> "_fraction_arithmetic", op |-> op, a_num |-> a_num,
                 a_den |-> a_den, b_num |-> b_num, b_den |-> b_den,
                 result |-> result, correct_answer |-> correct_answer])

FractionArithmetic(D, i, env) ==
    LET op == Choice(D, i, <<"+", "-", "*", "/">>)
        n1 == Randint(D, i + 1, 1, 10)
        d1 == Randint(D, i + 2, 2, 12)
        n2 == Randint(D, i + 3, 1, 10)
        d2 == Randint(D, i + 4, 2, 12)
        swap == op = "-" /\ FracLess(Fraction(n1, d1), Fraction(n2, d2))
        a_num == IF swap THEN n2 ELSE n1
        a_den == IF swap THEN d2 ELSE d1
        b_num == IF swap THEN n1 ELSE n2
        b_den == IF swap THEN d1 ELSE d2
        a_frac == Fraction(a_num, a_den)
        b_frac == Fraction(b_num, b_den)
        result == CASE op = "+" -> FracAdd(a_frac, b_frac)
                    [] op = "-" -> FracSub(a_frac, b_frac)
                    [] op = "*" -> FracMul(a_frac, b_frac)
                    [] OTHER -> FracDiv(a_frac, b_frac)
        sign == CASE op = "+" -> " + "
                  [] op = "-" -> " - "
                  [] op = "*" -> " × "
                  [] OTHER -> " ÷ "
        prompt == Frac(a_num, a_den) \o sign \o Frac(b_num, b_den) \o " = ?"
        correct_answer == FormatFraction(result)
    IN  Outcome(CreateNumericQuestion(prompt, correct_answer, "fraction_arithmetic",
                                      D, i + 5, env),
                [fn |-> "_fraction_arithmetic", op |-> op, a_num |-> a_num,
                 a_den |-> a_den, b_num |-> b_num, b_den |-> b_den,
                 result |-> result, correct_answer |-> correct_answer])

MixedFractions(D, i, env) ==
    LET w1 == Randint(D, i, 1, 5)
        d1 == Randint(D, i + 1, 2, 8)
        n1 == Randint(D, i + 2, 1, d1 - 1)
        t1 == Fraction(w1 * d1 + n1, d1)
        w2 == Randint(D, i + 3, 1, 5)
        d2 == Randint(D, i + 4, 2, 8)
        n2 == Randint(D, i + 5, 1, d2 - 1)
        t2 == Fraction(w2 * d2 + n2, d2)
        op == Choice(D, i + 6, <<"+", "-">>)
        swap == op = "-" /\ FracLess(t1, t2)
        a_total == IF swap THEN t2 ELSE t1
        b_total == IF swap THEN t1 ELSE t2
        \* a_whole, a_num, a_den = b_whole, b_num, b_den
        a_whole == IF swap THEN w2 ELSE w1
        a_num == IF swap THEN n2 ELSE n1
        a_den == IF swap THEN d2 ELSE d1
        \* b_whole, b_num, b_den = a_whole, a_num, a_den: a's values just assigned
        b_whole == IF swap THEN a_whole ELSE w2
        b_num == IF swap THEN a_num ELSE n2
        b_den == IF swap THEN a_den ELSE d2
        result == IF op = "+" THEN FracAdd(a_total, b_total)
                  ELSE FracSub(a_total, b_total)
        prompt == Str(a_whole) \o Frac(a_num, a_den)
                    \o (IF op = "+" THEN " + " ELSE " - ")
                    \o Str(b_whole) \o Frac(b_num, b_den) \o " = ?"
        correct_answer == FormatFraction(result)
    IN  Outcome(CreateNumericQuestion(prompt, correct_answer, "mixed_fractions",
                                      D, i + 7, env),
                [fn |-> "_mixed_fractions", op |-> op, a_whole |-> a_whole,
                 a_num |-> a_num, a_den |-> a_den, b_whole |-> b_whole,
                 b_num |-> b_num, b_den |-> b_den, a_total |-> a_total,
                 b_total |-> b_total, result |-> result,
                 correct_answer |-> correct_answer])

\* the palette of percentages, in hundredths of a percent
CommonPercents == <<1250, 625, 2500, 3333, 2000, 1000, 500, 5000, 7500>>

PercentBases == <<100, 200, 400, 800, 1000, 50>>

\* str(percent) of a float of the palette, or str(int(percent)) when it is whole
PercentStr(p) ==
    IF p % 100 = 0 THEN Str(p \div 100)
    ELSE IF p % 10 = 0 THEN Fmt1(p \div 10)
    ELSE Fmt2(p)

Percentages(D, i, env) ==
    LET percent == Choice(D, i, CommonPercents)
        base == Choice(D, i + 1, PercentBases)
        result == RoundHalfEven(percent * base, 100)
        prompt == PercentStr(percent) \o "\\% \\text{ of } " \o Str(base) \o " = ?"
        correct_answer == IF result % 100 = 0 THEN Str(result \div 100)
                          ELSE Fmt2(result)
    IN  Outcome(CreateNumericQuestion(prompt, correct_answer, "percentages",
                                      D, i + 2, env),
                [fn |-> "_percentages", percent |-> percent, base |-> base,
                 result |-> result, correct_answer |-> correct_answer])

\* self.question_types[g]()
NumericQuestionType(g, D, i, env) ==
    CASE g = 0 -> IntegerArithmetic(D, i, env)
      [] g = 1 -> DecimalArithmetic(D, i, env)
      [] g = 2 -> FractionArithmetic(D, i, env)
      [] g = 3 -> MixedFractions(D, i, env)
      [] OTHER -> Percentages(D, i, env)

\* NumericQuestionFactory.generate_question: random.choice(self.question_types)()
NumericGenerateQuestion(D, i, env) == NumericQuestionType(D[i] % 5, D, i + 1, env)

(***************************************************************************)
(* SequenceQuestionFactory.                                                *)
(***************************************************************************)
\* ", ".join(map(str, terms))
RECURSIVE JoinTerms(_)
JoinTerms(terms) ==
    IF Len(terms) = 0 THEN ""
    ELSE IF Len(terms) = 1 THEN Str(terms[1])
    ELSE JoinTerms(SubSeq(terms, 1, Len(terms) - 1)) \o ", " \o Str(terms[Len(terms)])

\* FormatPrompt listing every term, the answer included
FormatPromptAllTerms(terms) ==
    "What is the next number in this sequence?\n" \o JoinTerms(terms) \o ", ?"

\* _format_prompt: the first five terms and a question mark
FormatPrompt(terms) ==
    "What is the next number in this sequence?\n"
        \o JoinTerms(SubSeq(terms, 1, Min(5, Len(terms)))) \o ", ?"

\* terms[-1] whatever k is
FromEndLast(terms, k) == terms[Len(terms) + 0 * k]

\* terms[-k]
FromEnd(terms, k) == terms[Len(terms) - k + 1]

GenerateSequenceExplanation(pattern_type, terms) ==
    CASE pattern_type = "arithmetic" ->
            LET step == terms[2] - terms[1]
            IN  "This is an arithmetic sequence with common difference " \o Str(step)
                    \o ". Each term increases by " \o Str(step) \o "."
      [] pattern_type = "geometric" ->
            LET ratio == IF terms[1] # 0 THEN terms[2] \div terms[1] ELSE 2
            IN  "This is a geometric sequence with common ratio " \o Str(ratio)
                    \o ". Each term is multiplied by " \o Str(ratio) \o "."
      [] pattern_type = "n² pattern" ->
            "This sequence follows the pattern n² (squares of consecutive integers)."
      [] pattern_type = "n³ pattern" ->
            "This sequence follows the pattern n³ (cubes of consecutive integers)."
      [] pattern_type = "alternating" ->
            LET odd_step == terms[3] - terms[1]
                even_step == terms[4] - terms[2]
            IN  "This is an alternating sequence. Odd positions increase by "
                    \o Str(odd_step) \o ", even positions by " \o Str(even_step) \o "."
      [] pattern_type = "fibonacci" ->
            "This is a Fibonacci-style sequence where each term is the sum of the two preceding terms."
      [] OTHER -> "Identify the pattern and apply it to find the next term."

\* the options before deduplication: the correct answer and the distractors of
\* the pattern
SequenceOptions(correct_answer, pattern_type, terms) ==
    LET last_term == FromEnd(terms, 1)
    IN  CASE pattern_type = "arithmetic" ->
                LET step == terms[2] - terms[1]
                IN  <<correct_answer, Str(last_term + step * 2), Str(last_term - step),
                      Str(last_term + step + 1), Str(last_term + step * 3)>>
          [] pattern_type = "geometric" ->
                LET ratio == IF terms[1] # 0 THEN terms[2] \div terms[1] ELSE 2
                IN  <<correct_answer, Str(last_term * ratio * ratio),
                      Str(FromEnd(terms, 2)), Str(last_term * ratio + 1),
                      Str(last_term * ratio - 1)>>
          [] pattern_type \in {"n² pattern", "n³ pattern"} ->
                <<correct_answer, Str(FromEnd(terms, 2)), Str(last_term + 1),
                  Str(last_term - 1), Str(last_term + 10)>>
          [] pattern_type = "alternating" ->
                LET odd_step == terms[3] - terms[1]
                    even_step == terms[4] - terms[2]
                IN  <<correct_answer, Str(last_term + odd_step), Str(FromEnd(terms, 2)),
                      Str(last_term + even_step + 1), Str(last_term + 5)>>
          [] pattern_type = "fibonacci" ->
                <<correct_answer, Str(FromEnd(terms, 2)),
                  Str(FromEnd(terms, 1) + FromEnd(terms, 3)),
                  Str(FromEnd(terms, 1) + FromEnd(terms, 2) + 1),
                  Str(FromEnd(terms, 1) * 2)>>
          [] OTHER -> <<correct_answer>>

\* _create_sequence_question up to its padding loop
CreateSequenceQuestion(prompt, correct_answer, pattern_type, terms, D, i, env) ==
    [prompt |-> prompt,
     correct_answer |-> correct_answer,
     unique |-> ListOfSet(SequenceOptions(correct_answer, pattern_type, terms),
                          env.hashseed),
     padMax |-> 200,
     explanation |-> GenerateSequenceExplanation(pattern_type, terms),
     meta |-> [type |-> "sequence", pattern |-> pattern_type, terms |-> terms,
               latex |-> FALSE],
     next |-> i]

\* the recursive call of a generator that discards its draw
Regenerate == [regenerate |-> TRUE]

\* the draw that ends `while step == 0: step = random.randint(-9, 9)`
RECURSIVE StepDraw(_, _)
StepDraw(D, i) == IF Randint(D, i, -9, 9) # 0 THEN i ELSE StepDraw(D, i + 1)

\* one activation of _arithmetic_sequence: a question, or the recursive call
ArithmeticSequence(D, i, env) ==
    LET j == StepDraw(D, i)
        step == Randint(D, j, -9, 9)
        start == Randint(D, j + 1, 1, 20)
        terms == [k \in 1 .. 6 |-> start + (k - 1) * step]
        loc == [fn |-> "_arithmetic_sequence", step |-> step, start |-> start,
                terms |-> terms, correct_answer |-> Str(terms[6])]
    IN  IF \E k \in 1 .. 6 : Abs(terms[k]) > 100
        THEN [created |-> Regenerate, next |-> j + 2, locals |-> loc]
        ELSE Outcome(CreateSequenceQuestion(FormatPrompt(terms), Str(terms[6]),
                                            "arithmetic", terms, D, j + 2, env), loc)

RECURSIVE Pow(_, _)
Pow(b, e) == IF e = 0 THEN 1 ELSE b * Pow(b, e - 1)

\* _geometric_sequence returning whatever it drew
GeometricSequenceEmitAll(D, i, env) ==
    LET ratio == Randint(D, i, 2, 5)
        start == Randint(D, i + 1, 1, 5)
        terms == [k \in 1 .. 6 |-> start * Pow(ratio, k - 1)]
        loc == [fn |-> "_geometric_sequence", ratio |-> ratio, start |-> start,
                terms |-> terms, correct_answer |-> Str(terms[6])]
    IN  Outcome(CreateSequenceQuestion(FormatPrompt(terms), Str(terms[6]),
                                       "geometric", terms, D, i + 2, env), loc)

\* one activation of _geometric_sequence: a question, or the recursive call
GeometricSequence(D, i, env) ==
    LET ratio == Randint(D, i, 2, 5)
        start == Randint(D, i + 1, 1, 5)
        terms == [k \in 1 .. 6 |-> start * Pow(ratio, k - 1)]
        loc == [fn |-> "_geometric_sequence", ratio |-> ratio, start |-> start,
                terms |-> terms, correct_answer |-> Str(terms[6])]
    IN  IF FromEnd(terms, 1) > 1000
        THEN [created |-> Regenerate, next |-> i + 2, locals |-> loc]
        ELSE Outcome(CreateSequenceQuestion(FormatPrompt(terms), Str(terms[6]),
                                            "geometric", terms, D, i + 2, env), loc)

PolynomialSequence(D, i, env) ==
    LET poly_type == Choice(D, i, <<"square", "cube">>)
        start_n == IF poly_type = "square" THEN Randint(D, i + 1, 1, 5)
                   ELSE Randint(D, i + 1, 1, 3)
        terms == [k \in 1 .. 6 |->
                    Pow(start_n + k - 1, IF poly_type = "square" THEN 2 ELSE 3)]
        pattern_name == IF poly_type = "square" THEN "n² pattern" ELSE "n³ pattern"
    IN  Outcome(CreateSequenceQuestion(FormatPrompt(terms), Str(terms[6]),
                                       pattern_name, terms, D, i + 2, env),
                [fn |-> "_polynomial_sequence", poly_type |-> poly_type,
                 start_n |-> start_n, terms |-> terms,
                 correct_answer |-> Str(terms[6])])

AlternatingSequence(D, i, env) ==
    LET step1 == Randint(D, i, 1, 5)
        step2 == Randint(D, i + 1, 1, 5)
        start1 == Randint(D, i + 2, 1, 10)
        start2 == Randint(D, i + 3, 1, 10)
        \* position k here is index k - 1 of the code
        terms == [k \in 1 .. 6 |->
                    IF (k - 1) % 2 = 0 THEN start1 + ((k - 1) \div 2) * step1
                    ELSE start2 + ((k - 1) \div 2) * step2]
    IN  Outcome(CreateSequenceQuestion(FormatPrompt(terms), Str(terms[6]),
                                       "alternating", terms, D, i + 4, env),
                [fn |-> "_alternating_sequence", step1 |-> step1, step2 |-> step2,
                 start1 |-> start1, start2 |-> start2, terms |-> terms,
                 correct_answer |-> Str(terms[6])])

\* terms = [start1, start2]; for i in range(4): terms.append(terms[-1] + terms[-2])
RECURSIVE FibonacciTerms(_, _)
FibonacciTerms(terms, n) ==
    IF n = 0 THEN terms
    ELSE FibonacciTerms(Append(terms, FromEnd(terms, 1) + FromEnd(terms, 2)), n - 1)

FibonacciSequence(D, i, env) ==
    LET start1 == Randint(D, i, 1, 5)
        start2 == Randint(D, i + 1, 1, 5)
        terms == FibonacciTerms(<<start1, start2>>, 4)
        correct_answer == Str(FromEnd(terms, 1) + FromEnd(terms, 2))
    IN  Outcome(CreateSequenceQuestion(FormatPrompt(terms), correct_answer,
                                       "fibonacci", terms, D, i + 2, env),
                [fn |-> "_fibonacci_sequence", start1 |-> start1, start2 |-> start2,
                 terms |-> terms, correct_answer |-> correct_answer])

\* self.pattern_types[g]()
SequencePatternType(g, D, i, env) ==
    CASE g = 0 -> ArithmeticSequence(D, i, env)
      [] g = 1 -> GeometricSequence(D, i, env)
      [] g = 2 -> PolynomialSequence(D, i, env)
      [] g = 3 -> AlternatingSequence(D, i, env)
      [] OTHER -> FibonacciSequence(D, i, env)

\* SequenceQuestionFactory.generate_question: random.choice(self.pattern_types)()
SequenceGenerateQuestion(D, i, env) == SequencePatternType(D[i] % 5, D, i + 1, env)

\* one activation of sub-generator g of a factory of the kind
Activation(kind, g, D, i, env) ==
    IF kind = "numeric" THEN NumericQuestionType(g, D, i, env)
    ELSE SequencePatternType(g, D, i, env)

(***************************************************************************)
(* Spec: a factory asked for questions, its draws arbitrary.  Each action  *)
(* is generate_question with its choice fallen on one sub-generator; a     *)
(* regenerating sequence generator re-enters itself (pc names it).         *)
(***************************************************************************)
\* the draws of the padding loop (k fillers out of n values) and of the shuffle
TailDraws(k, n) ==
    {pads \o sh : pads \in [1 .. k -> Sample(n, PadSpan)], sh \in ShuffleDraws(5)}

\* sub-generator g of the kind runs on the draws pre, then on those of its
\* padding and shuffle
Activate(kind, g, fn, pre, tieUp) ==
    \E out \in {Activation(kind, g, pre, 1, [hashseed |-> hashseed, tieUp |-> tieUp])} :
        IF out.created = Regenerate
        THEN /\ depth < MaxDepth
             /\ pc' = fn
             /\ depth' = depth + 1
             /\ locals' = out.locals
             /\ question' = None
        ELSE \E tail \in TailDraws(PadCount(Len(out.created.unique)),
                                   out.created.padMax) :
             \E r \in {CompleteQuestion(out.created, pre \o tail, out.next)} :
                /\ pc' = IF IsQuestion(r.ret) THEN "returned" ELSE "raised"
                /\ depth' = 0
                /\ locals' = out.locals
                /\ question' = r.ret

IntegerArithmeticDraws ==
    {<<op, x, y>> : op \in 0 .. 3, x \in Sample(100, Span), y \in Sample(100, Span)}

IntegerArithmeticCall ==
    /\ pc = "idle"
    /\ \E pre \in IntegerArithmeticDraws :
            Activate("numeric", 0, "_integer_arithmetic", pre, FALSE)
    /\ UNCHANGED <<hashseed, rng, factories, sessions>>

DecimalArithmeticDraws ==
    {<<op, x, y>> : op \in 0 .. 2, x \in Sample(9901, Span), y \in Sample(9901, Span)}

DecimalArithmeticCall ==
    /\ pc = "idle"
    /\ \E pre \in DecimalArithmeticDraws, tieUp \in BOOLEAN :
            Activate("numeric", 1, "_decimal_arithmetic", pre, tieUp)
    /\ UNCHANGED <<hashseed, rng, factories, sessions>>

\* the five draws of the fraction distractors, sampled together
FractionDistractorDraws == {<<t, t, t, t, t>> : t \in Sample(5, FracSpan)}

FractionArithmeticDraws ==
    {<<op, n1, d1, n2, d2>> \o dd :
        op \in 0 .. 3, n1 \in Sample(10, Span), d1 \in Sample(11, Span),
        n2 \in Sample(10, Span), d2 \in Sample(11, Span),
        dd \in FractionDistractorDraws}

FractionArithmeticCall ==
    /\ pc = "idle"
    /\ \E pre \in FractionArithmeticDraws :
            Activate("numeric", 2, "_fraction_arithmetic", pre, FALSE)
    /\ UNCHANGED <<hashseed, rng, factories, sessions>>

MixedFractionsDraws ==
    {<<w1, d1, n1, w2, d2, n2, op>> \o dd :
        w1 \in Sample(5, Span), d1 \in Sample(7, Span), n1 \in Sample(7, Span),
        w2 \in Sample(5, Span), d2 \in Sample(7, Span), n2 \in Sample(7, Span),
        op \in 0 .. 1, dd \in FractionDistractorDraws}

MixedFractionsCall ==
    /\ pc = "idle"
    /\ \E pre \in MixedFractionsDraws :
            Activate("numeric", 3, "_mixed_fractions", pre, FALSE)
    /\ UNCHANGED <<hashseed, rng, factories, sessions>>

PercentagesDraws == {<<p, b>> : p \in 0 .. 8, b \in 0 .. 5}

PercentagesCall ==
    /\ pc = "idle"
    /\ \E pre \in PercentagesDraws :
            Activate("numeric", 4, "_percentages", pre, FALSE)
    /\ UNCHANGED <<hashseed, rng, factories, sessions>>

\* the step is drawn again while it is 0 (raw draw 9)
ArithmeticSequenceDraws ==
    {zeros \o <<st, s>> :
        zeros \in {<<>>, <<9>>}, st \in (0 .. 18) \ {9}, s \in Sample(20, Span)}

ArithmeticSequenceCall ==
    /\ pc \in {"idle", "_arithmetic_sequence"}
    /\ \E pre \in ArithmeticSequenceDraws :
            Activate("sequence", 0, "_arithmetic_sequence", pre, FALSE)
    /\ UNCHANGED <<hashseed, rng, factories, sessions>>

GeometricSequenceDraws == {<<r, s>> : r \in 0 .. 3, s \in 0 .. 4}

GeometricSequenceCall ==
    /\ pc \in {"idle", "_geometric_sequence"}
    /\ \E pre \in GeometricSequenceDraws :
            Activate("sequence", 1, "_geometric_sequence", pre, FALSE)
    /\ UNCHANGED <<hashseed, rng, factories, sessions>>

PolynomialSequenceDraws == {<<t, n>> : t \in 0 .. 1, n \in 0 .. 4}

PolynomialSequenceCall ==
    /\ pc = "idle"
    /\ \E pre \in PolynomialSequenceDraws :
            Activate("sequence", 2, "_polynomial_sequence", pre, FALSE)
    /\ UNCHANGED <<hashseed, rng, factories, sessions>>

AlternatingSequenceDraws ==
    {<<s1, s2, a1, a2>> :
        s1 \in 0 .. 4, s2 \in 0 .. 4, a1 \in Sample(10, Span), a2 \in Sample(10, Span)}

AlternatingSequenceCall ==
    /\ pc = "idle"
    /\ \E pre \in AlternatingSequenceDraws :
            Activate("sequence", 3, "_alternating_sequence", pre, FALSE)
    /\ UNCHANGED <<hashseed, rng, factories, sessions>>

FibonacciSequenceDraws == {<<a1, a2>> : a1 \in 0 .. 4, a2 \in 0 .. 4}

FibonacciSequenceCall ==
    /\ pc = "idle"
    /\ \E pre \in FibonacciSequenceDraws :
            Activate("sequence", 4, "_fibonacci_sequence", pre, FALSE)
    /\ UNCHANGED <<hashseed, rng, factories, sessions>>

\* the caller takes the question (or the exception) and may call again
NextCall ==
    /\ pc \in {"returned", "raised"}
    /\ pc' = "idle"
    /\ depth' = 0
    /\ locals' = None
    /\ question' = None
    /\ UNCHANGED <<hashseed, rng, factories, sessions>>

Init ==
    /\ pc = "idle"
    /\ depth = 0
    /\ locals = None
    /\ question = None
    /\ hashseed \in 0 .. (HashSeeds - 1)
    /\ rng = 0
    /\ factories = <<>>
    /\ sessions = <<>>

Next ==
    \/ IntegerArithmeticCall
    \/ DecimalArithmeticCall
    \/ FractionArithmeticCall
    \/ MixedFractionsCall
    \/ PercentagesCall
    \/ ArithmeticSequenceCall
    \/ GeometricSequenceCall
    \/ PolynomialSequenceCall
    \/ AlternatingSequenceCall
    \/ FibonacciSequenceCall
    \/ NextCall

Spec == Init /\ [][Next]_vars

(***************************************************************************)
(* Claims about the questions a factory returns (Spec).                    *)
(***************************************************************************)
Returned == pc = "returned"

\* the option in the slot answer_letter names
AnswerOption(q) == q.options[Ord(q.answer_letter) + 1]

\* the slots of q that hold the string x
Slots(q, x) == {k \in DOMAIN q.options : q.options[k] = x}

\* C1: every question a factory returns has exactly 5 options, an answer letter
\* among A..E, and in the slot of that letter the correct answer string the
\* sub-generator computed for the prompt.
C1_Structure ==
    Returned =>
        /\ Len(question.options) = 5
        /\ question.answer_letter \in {"A", "B", "C", "D", "E"}
        /\ AnswerOption(question) = locals.correct_answer

\* C1 witness: a subtraction a - a, whose distractors collide (1, -1, 0, 0), was
\* padded with two fillers and returned with its answer in the last slot.
C1_Witness ==
    /\ Returned
    /\ locals.fn = "_integer_arithmetic"
    /\ locals.op = "-"
    /\ locals.result = 0
    /\ question.answer_letter = "E"
    /\ question.options[5] = "0"

\* C2: the 5 options of every returned question are pairwise distinct.
C2_PairwiseDistinct ==
    Returned =>
        \A j, k \in DOMAIN question.options :
            j # k => question.options[j] # question.options[k]

\* C3: exactly one option slot of every returned question holds the correct
\* value, the slot answer_letter names.
C3_OneCorrectSlot ==
    Returned =>
        Slots(question, locals.correct_answer) = {Ord(question.answer_letter) + 1}

\* the first five terms as the prompt lists them
PromptOf(t) ==
    "What is the next number in this sequence?\n"
        \o Str(t[1]) \o ", " \o Str(t[2]) \o ", " \o Str(t[3]) \o ", "
        \o Str(t[4]) \o ", " \o Str(t[5]) \o ", ?"

\* the term rule of each pattern, from the parameters the generator drew
FollowsRule(loc, t) ==
    CASE loc.fn = "_arithmetic_sequence" ->
            \A k \in 0 .. 5 : t[k + 1] = loc.start + k * loc.step
      [] loc.fn = "_geometric_sequence" ->
            /\ t[1] = loc.start
            /\ \A k \in 1 .. 5 : t[k + 1] = t[k] * loc.ratio
      [] loc.fn = "_polynomial_sequence" ->
            \A k \in 0 .. 5 :
                t[k + 1] = IF loc.poly_type = "square"
                           THEN (loc.start_n + k) * (loc.start_n + k)
                           ELSE (loc.start_n + k) * (loc.start_n + k) * (loc.start_n + k)
      [] loc.fn = "_alternating_sequence" ->
            /\ \A k \in 0 .. 2 : t[2 * k + 1] = loc.start1 + k * loc.step1
            /\ \A k \in 0 .. 2 : t[2 * k + 2] = loc.start2 + k * loc.step2
      [] OTHER -> FALSE

\* the draws (step 3, start 5) of the arithmetic example
ArithmeticExample ==
    ArithmeticSequence(<<12, 4>>, 1, [hashseed |-> 0, tieUp |-> FALSE])

\* C8: an arithmetic, geometric, polynomial or alternating question carries
\* exactly 6 terms that follow the pattern's rule, its prompt lists the first 5
\* and its correct answer is the 6th as an integer string; start 5 and step 3
\* give 5, 8, 11, 14, 17, 20.
C8_SixTerms ==
    /\ (Returned /\ locals.fn \in {"_arithmetic_sequence", "_geometric_sequence",
                                    "_polynomial_sequence", "_alternating_sequence"}) =>
            /\ Len(question.meta.terms) = 6
            /\ FollowsRule(locals, question.meta.terms)
            /\ question.prompt = PromptOf(question.meta.terms)
            /\ AnswerOption(question) = Str(question.meta.terms[6])
    /\ ArithmeticExample.locals.terms = <<5, 8, 11, 14, 17, 20>>
    /\ ArithmeticExample.created.correct_answer = "20"

\* C8 witness: an alternating question whose two sub-sequences differ was
\* returned.
C8_Witness ==
    /\ Returned
    /\ locals.fn = "_alternating_sequence"
    /\ locals.step1 = 2
    /\ locals.step2 = 5
    /\ question.meta.terms = <<1, 2, 3, 7, 5, 12>>
    /\ AnswerOption(question) = "12"

\* C9: a Fibonacci-style question carries exactly 6 terms, two seeds in 1..5 and
\* each later term the sum of the two before it; its prompt lists the first 5
\* and its correct answer is the 6th (seeds 2, 3: answer 21).
C9_FibonacciSixth ==
    (Returned /\ locals.fn = "_fibonacci_sequence") =>
        LET t == question.meta.terms
        IN  /\ Len(t) = 6
            /\ t[1] \in 1 .. 5 /\ t[2] \in 1 .. 5
            /\ \A k \in 3 .. 6 : t[k] = t[k - 1] + t[k - 2]
            /\ question.prompt = PromptOf(t)
            /\ AnswerOption(question) = Str(t[6])

\* the sign the prompt shows for an operation
Sign(op) ==
    CASE op = "+" -> " + "
      [] op = "-" -> " - "
      [] op = "*" -> " × "
      [] OTHER -> " ÷ "

\* the draws (division, divisor 6, quotient 7) of the division example
DivisionExample ==
    IntegerArithmetic(<<3, 4, 5>>, 1, [hashseed |-> 0, tieUp |-> FALSE])

\* C10: the correct answer of an integer_arithmetic question is the exact result
\* of the operands its prompt shows: a + b, a * b, a - b with a >= b, and for a
\* division a = b * quotient with b and the quotient in 2..20; divisor 6 and
\* quotient 7 give "42 / 6" and the answer 7.
C10_IntegerExact ==
    /\ (Returned /\ locals.fn = "_integer_arithmetic") =>
            LET a == locals.a
                b == locals.b
                answer == AnswerOption(question)
            IN  /\ question.prompt = Str(a) \o Sign(locals.op) \o Str(b) \o " = ?"
                /\ locals.op = "+" => answer = Str(a + b)
                /\ locals.op = "*" => answer = Str(a * b)
                /\ locals.op = "-" => a >= b /\ answer = Str(a - b)
                /\ locals.op = "/" =>
                        \E quotient \in 2 .. 20 :
                            /\ b \in 2 .. 20
                            /\ a = b * quotient
                            /\ answer = Str(quotient)
    /\ DivisionExample.created.prompt = "42 ÷ 6 = ?"
    /\ DivisionExample.created.correct_answer = "7"

\* C10 witness: a subtraction whose draws came smaller first was returned with
\* the larger operand shown first.
C10_Witness ==
    /\ Returned
    /\ locals.fn = "_integer_arithmetic"
    /\ locals.op = "-"
    /\ question.prompt = "2 - 1 = ?"
    /\ AnswerOption(question) = "1"

(***************************************************************************)
(* The global stream of the random module.  random.seed(n) puts the one    *)
(* generator of the process in a state fixed by n, and every random.* call *)
(* of every factory and mode advances that same generator.  The generator  *)
(* is modelled by a full-period congruential generator over RngMod states. *)
(***************************************************************************)
RngMod == 16 * 16

\* random.seed(seed)
SeedState(seed) == (seed * 29 + 17) % RngMod

\* the state after one draw
RngStep(s) == (s * 13 + 7) % RngMod

\* the raw number a draw yields in state s
RngOut(s) == s \div 4

\* the state n draws after s
RECURSIVE Advance(_, _)
Advance(s, n) == IF n = 0 THEN s ELSE Advance(RngStep(s), n - 1)

\* the next n raw draws in state s
RECURSIVE Stream(_, _)
Stream(s, n) ==
    IF n = 0 THEN <<>> ELSE <<RngOut(RngStep(s))>> \o Stream(RngStep(s), n - 1)

\* the seed argument left at its default, None
NoSeed == -1

\* QuestionGenerator.__init__: an explicit seed reseeds the global stream
QuestionGeneratorInit(seed, s) == IF seed = NoSeed THEN s ELSE SeedState(seed)

\* the states the stream of a fresh process may be in (seeded from the clock)
FreshStates == {SeedState(e) : e \in 2 .. 3}

\* Python's recursion limit, which ends a regeneration that never succeeds
RecursionError == [error |-> "RecursionError"]

\* the length of the window of draws one call may consume
StreamLen == 4 * (MaxRecursion + 1) + 16

\* a sub-generator and the regenerations it calls for, on the draws from D[i]
RECURSIVE Attempt(_, _, _, _, _, _)
Attempt(kind, g, D, i, env, fuel) ==
    The({IF out.created = Regenerate
         THEN IF fuel = 0 THEN [ret |-> RecursionError, next |-> out.next]
              ELSE Attempt(kind, g, D, out.next, env, fuel - 1)
         ELSE CompleteQuestion(out.created, D, out.next) :
         out \in {Activation(kind, g, D, i, env)}})

\* factory.generate_question() with the global stream in state s: the question
\* (or the exception) and the state the stream is left in
GenerateQuestion(kind, s, env) ==
    The({[ret |-> r.ret, rng |-> Advance(s, r.next - 1)] :
         r \in {Attempt(kind, draws[1] % 5, draws, 2, env, MaxRecursion) :
                draws \in {Stream(s, StreamLen)}}})

\* the environment of the process: its string hash seed; the binary rounding of
\* base / 10 is a function of base, taken downwards here
Env(h) == [hashseed |-> h, tieUp |-> FALSE]

(***************************************************************************)
(* SpecFactories: two factories of one process, constructed and asked for  *)
(* questions in any interleaving.                                          *)
(***************************************************************************)
Kinds == {"numeric", "sequence"}

Seeds == 0 .. (MaxSeed - 1)

\* a slot no factory is bound to yet
NoFactory == [kind |-> None]

Constructed(f) == factories[f].kind # None

\* NumericQuestionFactory(seed) or SequenceQuestionFactory(seed) bound to slot f
Construct(f, kind, seed) ==
    /\ ~Constructed(f)
    /\ factories' = [factories EXCEPT ![f] = [kind |-> kind, seed |-> seed, out |-> <<>>]]
    /\ rng' = QuestionGeneratorInit(seed, rng)
    /\ UNCHANGED <<genVars, hashseed, sessions>>

\* factories[f].generate_question()
Generate(f) ==
    /\ Constructed(f)
    /\ Len(factories[f].out) < MaxQuestions
    /\ \E r \in {GenerateQuestion(factories[f].kind, rng, Env(hashseed))} :
            /\ factories' = [factories EXCEPT ![f].out = Append(@, r.ret)]
            /\ rng' = r.rng
    /\ UNCHANGED <<genVars, hashseed, sessions>>

InitFactories ==
    /\ pc = "idle"
    /\ depth = 0
    /\ locals = None
    /\ question = None
    /\ hashseed \in 0 .. (HashSeeds - 1)
    /\ rng \in FreshStates
    /\ factories = <<NoFactory, NoFactory>>
    /\ sessions = <<>>

NextFactories ==
    \/ \E f \in 1 .. 2, kind \in Kinds, seed \in Seeds \cup {NoSeed} : Construct(f, kind, seed)
    \/ \E f \in 1 .. 2 : Generate(f)

SpecFactories == InitFactories /\ [][NextFactories]_vars

\* the questions a factory of the kind, seeded and left alone, returns first
RECURSIVE Alone(_, _, _, _)
Alone(kind, s, env, n) ==
    IF n = 0 THEN <<>>
    ELSE LET r == GenerateQuestion(kind, s, env)
         IN  <<r.ret>> \o Alone(kind, r.rng, env, n - 1)

\* the type label (numeric) or pattern label (sequence) of a question
Label(q) == IF q.meta.type = "sequence" THEN q.meta.pattern ELSE q.meta.type

\* C4: two factories of the same kind constructed with the same explicit seed
\* and asked for the same number of questions made the same type or pattern
\* selections, position for position.
C4_SameSelections ==
    (/\ Constructed(1)
     /\ Constructed(2)
     /\ factories[1].kind = factories[2].kind
     /\ factories[1].seed # NoSeed
     /\ factories[1].seed = factories[2].seed
     /\ Len(factories[1].out) = Len(factories[2].out)) =>
        \A k \in 1 .. Len(factories[1].out) :
            (IsQuestion(factories[1].out[k]) /\ IsQuestion(factories[2].out[k])) =>
                Label(factories[1].out[k]) = Label(factories[2].out[k])

\* C5: the questions a factory constructed with an explicit seed has produced
\* are those it produces alone, whatever the other factory did in between.
C5_OwnStream ==
    \A f \in 1 .. 2 :
        (Constructed(f) /\ factories[f].seed # NoSeed) =>
            factories[f].out = Alone(factories[f].kind, SeedState(factories[f].seed),
                                     Env(hashseed), Len(factories[f].out))

(***************************************************************************)
(* BaseMode and its two modes, NumericTestMode and SequenceTestMode.       *)
(***************************************************************************)
\* get_timer_seconds
GetTimerSeconds(kind) == IF kind = "numeric" THEN 360 ELSE 300

\* get_question_count, capped by the model's bound
GetQuestionCount(kind) == Min(IF kind = "numeric" THEN 50 ELSE 40, MaxQuestions)

\* the session-level shuffle with the answer letter left as it was
ShuffleOptionsKeepLetter(q, D, i) == [q EXCEPT !.options = Shuffle(q.options, D, i)]

\* the session-level shuffle of initialize: the correct option's value is
\* recorded, the options are shuffled, the letter is set to the value's new index
ShuffleOptions(q, D, i) ==
    LET original_answer == q.options[Ord(q.answer_letter) + 1]
        options == Shuffle(q.options, D, i)
        new_answer_index == Index(options, original_answer)
    IN  [q EXCEPT !.options = options, !.answer_letter = Chr(new_answer_index)]

\* one pass of the loop of initialize: the question r.ret the factory returned
\* is shuffled if requested and appended; generated keeps it as returned
AppendQuestion(acc, r, shuffle_options) ==
    IF ~IsQuestion(r.ret)
    THEN [acc EXCEPT !.rng = r.rng, !.raised = TRUE]
    ELSE [questions |-> Append(acc.questions,
                               IF shuffle_options
                               THEN ShuffleOptions(r.ret, Stream(r.rng, 4), 1)
                               ELSE r.ret),
          generated |-> Append(acc.generated, r.ret),
          rng |-> IF shuffle_options THEN Advance(r.rng, 4) ELSE r.rng,
          raised |-> FALSE]

\* the loop of initialize with n questions to go, acc holding the questions
\* appended so far, the stream's state and whether generate_question raised
RECURSIVE GenerateSession(_, _, _, _, _)
GenerateSession(kind, shuffle_options, env, n, acc) ==
    IF n = 0 \/ acc.raised THEN acc
    ELSE The({GenerateSession(kind, shuffle_options, env, n - 1, next) :
              next \in {AppendQuestion(acc, got, shuffle_options) :
                        got \in {GenerateQuestion(kind, acc.rng, env)}}})

\* a slot no mode is bound to yet
NoSession == [kind |-> None]

Started(m) == sessions[m].kind # None

\* mode = NumericTestMode(seed) or SequenceTestMode(seed), then
\* mode.initialize(practice_mode, shuffle_options); generated keeps the
\* questions as the factory returned them, before the session-level shuffle
InitializeMode(m, kind, seed, practice_mode, shuffle_options) ==
    /\ ~Started(m)
    /\ \A j \in 1 .. (m - 1) : Started(j)
    /\ \E g \in {GenerateSession(kind, shuffle_options, Env(hashseed),
                                 GetQuestionCount(kind),
                                 [questions |-> <<>>, generated |-> <<>>,
                                  rng |-> QuestionGeneratorInit(seed, rng),
                                  raised |-> FALSE])} :
            /\ sessions' = [sessions EXCEPT ![m] =
                    [kind |-> kind,
                     seed |-> seed,
                     practice_mode |-> practice_mode,
                     shuffle_options |-> shuffle_options,
                     raised |-> g.raised,
                     questions |-> IF g.raised THEN <<>> ELSE g.questions,
                     generated |-> IF g.raised THEN <<>> ELSE g.generated,
                     answers |-> IF g.raised THEN <<>>
                                 ELSE [k \in 1 .. Len(g.questions) |-> None],
                     current_question_index |-> 0]]
            /\ rng' = g.rng
    /\ UNCHANGED <<hashseed, factories>>

\* a mode is made and initialized while nothing else is going on
StartSession(m, kind, seed, practice_mode, shuffle_options) ==
    /\ InitializeMode(m, kind, seed, practice_mode, shuffle_options)
    /\ UNCHANGED genVars

\* the program exits and is run again between two sessions: a new process,
\* with its own string hash seed and a freshly seeded stream; the session shown
\* before stays on record
Restart ==
    /\ Started(1)
    /\ ~Started(2)
    /\ hashseed' \in 0 .. (HashSeeds - 1)
    /\ rng' \in FreshStates
    /\ UNCHANGED <<genVars, factories, sessions>>

InitSessions ==
    /\ pc = "idle"
    /\ depth = 0
    /\ locals = None
    /\ question = None
    /\ hashseed \in 0 .. (HashSeeds - 1)
    /\ rng \in FreshStates
    /\ factories = <<>>
    /\ sessions = <<NoSession, NoSession>>

NextSessions ==
    \/ \E m \in 1 .. 2, kind \in Kinds, seed \in Seeds \cup {NoSeed},
          practice_mode \in BOOLEAN, shuffle_options \in BOOLEAN :
            StartSession(m, kind, seed, practice_mode, shuffle_options)
    \/ Restart

SpecSessions == InitSessions /\ [][NextSessions]_vars

\* C6: two sessions of the same mode, initialized with the same explicit seed
\* and the same shuffle_options flag, hold position for position questions with
\* the same prompt, the same options in the same order and the same letter.
C6_Reproducible ==
    (/\ Started(1)
     /\ Started(2)
     /\ sessions[1].kind = sessions[2].kind
     /\ sessions[1].seed # NoSeed
     /\ sessions[1].seed = sessions[2].seed
     /\ sessions[1].shuffle_options = sessions[2].shuffle_options) =>
        /\ Len(sessions[1].questions) = Len(sessions[2].questions)
        /\ \A k \in 1 .. Len(sessions[1].questions) :
                /\ sessions[1].questions[k].prompt = sessions[2].questions[k].prompt
                /\ sessions[1].questions[k].options = sessions[2].questions[k].options
                /\ sessions[1].questions[k].answer_letter
                        = sessions[2].questions[k].answer_letter

\* how often x occurs in s
Count(s, x) == Cardinality({k \in DOMAIN s : s[k] = x})

\* C7: in a session initialized with shuffle_options, every question's option
\* at the new answer letter is the option that was correct before the shuffle,
\* and its options are a permutation of the options before the shuffle.
C7_ShuffleConsistent ==
    \A m \in 1 .. 2 :
        (Started(m) /\ sessions[m].shuffle_options) =>
            \A k \in 1 .. Len(sessions[m].questions) :
                LET q == sessions[m].questions[k]
                    g == sessions[m].generated[k]
                IN  /\ q.answer_letter \in {"A", "B", "C", "D", "E"}
                    /\ AnswerOption(q) = AnswerOption(g)
                    /\ Len(q.options) = Len(g.options)
                    /\ \A x \in Range(q.options) \cup Range(g.options) :
                            Count(q.options, x) = Count(g.options, x)

\* C7 witness: a session was initialized with shuffle_options, and the shuffle
\* moved the correct option of its first question to another letter.
C7_Witness ==
    /\ Started(1)
    /\ sessions[1].shuffle_options
    /\ Len(sessions[1].questions) = GetQuestionCount(sessions[1].kind)
    /\ sessions[1].questions[1].options # sessions[1].generated[1].options
    /\ sessions[1].questions[1].answer_letter # sessions[1].generated[1].answer_letter

(***************************************************************************)
(* Claims about the fraction questions (Spec).                             *)
(***************************************************************************)
\* the one formatting rule: whole when the denominator divides the numerator,
\* mixed when the numerator is at least the denominator, else plain
FormatRule(f) ==
    IF f.numerator % f.denominator = 0 THEN Str(f.numerator \div f.denominator)
    ELSE IF f.numerator >= f.denominator
    THEN Str(f.numerator \div f.denominator) \o " "
            \o Str(f.numerator % f.denominator) \o "/" \o Str(f.denominator)
    ELSE Str(f.numerator) \o "/" \o Str(f.denominator)

\* C11: the correct answer of a fraction_arithmetic or mixed_fractions question
\* is its exact reduced result formatted by the one rule: the whole number when
\* the denominator divides the numerator, 'whole remainder/denominator' when
\* the numerator is at least the denominator, else 'numerator/denominator'
\* (1/4 + 1/4 is "1/2", 3/2 + 3/2 is "3", 5/4 + 1/4 is "1 1/2").
C11_FormatRule ==
    /\ (Returned /\ locals.fn \in {"_fraction_arithmetic", "_mixed_fractions"}) =>
            /\ Gcd(locals.result.numerator, locals.result.denominator) = 1
            /\ AnswerOption(question) = FormatRule(locals.result)
    /\ FormatFraction(FracAdd(Fraction(1, 4), Fraction(1, 4))) = "1/2"
    /\ FormatFraction(FracAdd(Fraction(3, 2), Fraction(3, 2))) = "3"
    /\ FormatFraction(FracAdd(Fraction(5, 4), Fraction(1, 4))) = "1 1/2"

\* the value of a displayed mixed number whole num/den
MixedValue(whole, num, den) == Fraction(whole * den + num, den)

\* C12: a mixed_fractions subtraction has a non-negative result, and its
\* correct answer is the value of the expression displayed in the prompt:
\* the prompt shows the operands held in locals, so the result equals the
\* displayed minuend minus the displayed subtrahend.
C12_SubtractionDisplayed ==
    (Returned /\ locals.fn = "_mixed_fractions" /\ locals.op = "-") =>
        /\ locals.result.numerator >= 0
        /\ question.prompt =
                Str(locals.a_whole) \o Frac(locals.a_num, locals.a_den) \o " - "
                    \o Str(locals.b_whole) \o Frac(locals.b_num, locals.b_den)
                    \o " = ?"
        /\ locals.result =
                FracSub(MixedValue(locals.a_whole, locals.a_num, locals.a_den),
                        MixedValue(locals.b_whole, locals.b_num, locals.b_den))

(* The reading of an answer string: "w", "n/d" or "w n/d" denotes w, n/d   *)
(* or w + n/d.  The parts are searched up to what the sampled operands can *)
(* produce.                                                                *)
MaxShownWhole == (Span + 1) * (Span + 1)

MaxShownDen == (Span + 2) * (Span + 2)

\* the string s denotes the rational P / Q (Q > 0), compared by cross-multiplication
Denotes(s, P, Q) ==
    \/ \E w \in 0 .. MaxShownWhole : s = Str(w) /\ w * Q = P
    \/ \E d \in 1 .. MaxShownDen : \E n \in 0 .. MaxShownDen :
            /\ P * d = n * Q
            /\ s = Str(n) \o "/" \o Str(d)
    \/ \E w \in 0 .. MaxShownWhole : \E d \in 1 .. MaxShownDen :
        \E n \in 0 .. MaxShownDen :
            /\ P * d = (w * d + n) * Q
            /\ s = Str(w) \o " " \o Str(n) \o "/" \o Str(d)

\* the displayed expression a_num/a_den op b_num/b_den, as a pair <<P, Q>>
ExactValue(op, an, ad, bn, bd) ==
    CASE op = "+" -> <<an * bd + bn * ad, ad * bd>>
      [] op = "-" -> <<an * bd - bn * ad, ad * bd>>
      [] op = "*" -> <<an * bn, ad * bd>>
      [] OTHER -> <<an * bd, ad * bn>>

OpSign(op) ==
    CASE op = "+" -> " + " [] op = "-" -> " - " [] op = "*" -> " × "
      [] OTHER -> " ÷ "

\* C13: a fraction_arithmetic question displays numerators from 1 to 10 and
\* denominators from 2 to 12 joined by one of the four operations; the
\* correct answer denotes the exact rational value of the displayed
\* expression in the displayed order, and a subtraction is never negative.
C13_FractionExact ==
    (Returned /\ locals.fn = "_fraction_arithmetic") =>
        LET v == ExactValue(locals.op, locals.a_num, locals.a_den,
                            locals.b_num, locals.b_den)
        IN  /\ locals.a_num \in 1 .. 10 /\ locals.b_num \in 1 .. 10
            /\ locals.a_den \in 2 .. 12 /\ locals.b_den \in 2 .. 12
            /\ locals.op \in {"+", "-", "*", "/"}
            /\ question.prompt =
                    Frac(locals.a_num, locals.a_den) \o OpSign(locals.op)
                        \o Frac(locals.b_num, locals.b_den) \o " = ?"
            /\ v[1] >= 0
            /\ Denotes(AnswerOption(question), v[1], v[2])

\* C13: a subtraction whose operands were drawn in either order and is
\* displayed as 1/2 - 1/3 has been answered
C13_Witness ==
    /\ Returned /\ locals.fn = "_fraction_arithmetic" /\ locals.op = "-"
    /\ locals.a_num = 1 /\ locals.a_den = 2
    /\ locals.b_num = 1 /\ locals.b_den = 3
    /\ AnswerOption(question) = "1/6"

(***************************************************************************)
(* The application with one test on screen: App.current_mode is        *)
(* sessions[1].  The test is started from the menu, its questions are      *)
(* browsed and answered, and the results are exported.                     *)
(***************************************************************************)
\* the values an answer slot is given: a letter of the combobox, its
\* placeholder, or None
AnswerValues == {None, "Select Answer", "A", "B", "C", "D", "E"}

\* start_numeric_test / start_sequence_test: a new mode replaces current_mode
\* and is initialized
StartTest(kind, seed, practice_mode, shuffle_options) ==
    StartSession(1, kind, seed, practice_mode, shuffle_options)

\* set_answer appending the answer instead of assigning the current slot
SetAnswerAppend(answer) ==
    /\ Started(1)
    /\ pc = "idle"
    /\ sessions' = [sessions EXCEPT ![1].answers = Append(@, answer)]
    /\ UNCHANGED <<genVars, hashseed, rng, factories>>

\* BaseMode.set_answer, called from the test screen (pc = "idle"): the slot of
\* the current question is assigned; nothing happens when the index is outside
\* the questions
SetAnswer(answer) ==
    /\ Started(1)
    /\ pc = "idle"
    /\ LET mode == sessions[1]
           idx == mode.current_question_index
       IN  sessions' =
                IF 0 <= idx /\ idx < Len(mode.questions)
                THEN [sessions EXCEPT ![1].answers[idx + 1] = answer]
                ELSE sessions
    /\ UNCHANGED <<genVars, hashseed, rng, factories>>

\* App.previous_question: nothing happens at the first question
PreviousQuestion ==
    /\ Started(1)
    /\ pc = "idle"
    /\ sessions' = IF sessions[1].current_question_index > 0
                   THEN [sessions EXCEPT ![1].current_question_index = @ - 1]
                   ELSE sessions
    /\ UNCHANGED <<genVars, hashseed, rng, factories>>

\* next_question moving on from the last question too
NextQuestionUnguarded ==
    /\ Started(1)
    /\ pc = "idle"
    /\ sessions' = [sessions EXCEPT ![1].current_question_index = @ + 1]
    /\ UNCHANGED <<genVars, hashseed, rng, factories>>

\* App.next_question: nothing happens at the last question
NextQuestion ==
    /\ Started(1)
    /\ pc = "idle"
    /\ sessions' = IF sessions[1].current_question_index
                        < Len(sessions[1].questions) - 1
                   THEN [sessions EXCEPT ![1].current_question_index = @ + 1]
                   ELSE sessions
    /\ UNCHANGED <<genVars, hashseed, rng, factories>>

\* the loop of get_score over the first n questions, as <<correct, incorrect,
\* unanswered>>
RECURSIVE Tally(_, _)
Tally(mode, n) ==
    IF n = 0 THEN <<0, 0, 0>>
    ELSE LET t == Tally(mode, n - 1)
             answer == mode.answers[n]
         IN  IF answer = None \/ answer = "Select Answer"
             THEN <<t[1], t[2], t[3] + 1>>
             ELSE IF answer = mode.questions[n].answer_letter
             THEN <<t[1] + 1, t[2], t[3]>>
             ELSE <<t[1], t[2] + 1, t[3]>>

\* get_score with only None counted as unanswered
RECURSIVE TallyNoneOnly(_, _)
TallyNoneOnly(mode, n) ==
    IF n = 0 THEN <<0, 0, 0>>
    ELSE LET t == TallyNoneOnly(mode, n - 1)
             answer == mode.answers[n]
         IN  IF answer = None
             THEN <<t[1], t[2], t[3] + 1>>
             ELSE IF answer = mode.questions[n].answer_letter
             THEN <<t[1] + 1, t[2], t[3]>>
             ELSE <<t[1], t[2] + 1, t[3]>>

GetScoreNoneOnly(mode) ==
    <<Len(mode.questions)>> \o TallyNoneOnly(mode, Len(mode.questions))

\* BaseMode.get_score: (total, correct, incorrect, unanswered)
GetScore(mode) == <<Len(mode.questions)>> \o Tally(mode, Len(mode.questions))

(* Claims about the running test (SpecApp). *)
\* the test on screen has been initialized without generate_question raising
Running == Started(1) /\ ~sessions[1].raised

\* the positions of the questions of mode
AllSlots(mode) == 1 .. Len(mode.questions)

Unset(a) == a = None \/ a = "Select Answer"

\* C14: get_score returns (total, correct, incorrect, unanswered): total is
\* the number of questions; a slot holding None or 'Select Answer' counts as
\* unanswered, one equal to the question's answer_letter as correct, any
\* other as incorrect, so the three counts sum to total after any answer
\* assignments; with every slot unset unanswered = total and correct =
\* incorrect = 0, and with every slot holding its correct letter correct = total.
C14_Score ==
    Running =>
        LET mode == sessions[1]
            score == GetScore(mode)
            slots == AllSlots(mode)
        IN  /\ score[1] = Len(mode.questions)
            /\ score[2] + score[3] + score[4] = score[1]
            /\ score[4] = Cardinality({k \in slots : Unset(mode.answers[k])})
            /\ score[2] = Cardinality({k \in slots :
                                mode.answers[k] = mode.questions[k].answer_letter})
            /\ score[3] = Cardinality({k \in slots :
                                /\ ~Unset(mode.answers[k])
                                /\ mode.answers[k] # mode.questions[k].answer_letter})
            /\ (\A k \in slots : mode.answers[k] = None) =>
                    score = <<score[1], 0, 0, score[1]>>
            /\ (\A k \in slots : mode.answers[k] = mode.questions[k].answer_letter) =>
                    score[2] = score[1]

\* C14 witness: a test of two questions holds one correct answer and one
\* 'Select Answer', assigned through set_answer
C14_Witness ==
    /\ Running
    /\ Len(sessions[1].questions) = 2
    /\ sessions[1].answers[1] = sessions[1].questions[1].answer_letter
    /\ sessions[1].answers[2] = "Select Answer"
    /\ GetScore(sessions[1]) = <<2, 1, 0, 1>>

\* in every state of an initialized test the questions are as many as
\* get_question_count() says, the answers as many as the questions, and the
\* current index is inside them
SlotsMatch ==
    Running =>
        /\ Len(sessions[1].questions) = GetQuestionCount(sessions[1].kind)
        /\ Len(sessions[1].answers) = Len(sessions[1].questions)
        /\ sessions[1].current_question_index \in 0 .. (Len(sessions[1].questions) - 1)

\* the step that initializes the mode leaves every answer None and the
\* current index 0
InitializedFresh ==
    [][\A kind \in Kinds, seed \in Seeds \cup {NoSeed}, pm \in BOOLEAN, so \in BOOLEAN :
            (StartTest(kind, seed, pm, so) /\ ~sessions'[1].raised) =>
                /\ sessions'[1].kind = kind
                /\ Len(sessions'[1].questions) = GetQuestionCount(kind)
                /\ sessions'[1].answers
                        = [k \in 1 .. GetQuestionCount(kind) |-> None]
                /\ sessions'[1].current_question_index = 0]_vars

DigitsToUpper == "0123456789:;<=>?@ABCDEFGHIJKLMNOPQRSTUVWXYZ"

LowerChars == "abcdefghijklmnopqrstuvwxyz"

\* the position of the one-character string c in chars, 0 if it is not there
Position(chars, c) ==
    IF \E k \in 1 .. Len(chars) : SubSeq(chars, k, k) = c
    THEN CHOOSE k \in 1 .. Len(chars) : SubSeq(chars, k, k) = c
    ELSE 0

\* ord(c) of a string of one character among those above; -1 stands for the
\* TypeError ord raises for None and for a string of any other length
OrdChar(c) ==
    IF c = None \/ Len(c) # 1 THEN -1
    ELSE IF Position(DigitsToUpper, c) > 0 THEN 47 + Position(DigitsToUpper, c)
    ELSE 96 + Position(LowerChars, c)

\* the value of a string of decimal digits after acc, or -1 if a character of
\* it is no digit
RECURSIVE DigitsValue(_, _)
DigitsValue(s, acc) ==
    IF s = "" THEN acc
    ELSE IF \E d \in 1 .. 10 : DigitChars[d] = Head(s)
    THEN DigitsValue(Tail(s),
                     10 * acc + (CHOOSE d \in 1 .. 10 : DigitChars[d] = Head(s)) - 1)
    ELSE -1

NoFloat == [ok |-> FALSE]

\* float(s) of an option text with at most two decimals, in hundredths: an
\* optional sign, digits, and optionally a point and digits, with a digit on
\* one side of the point at least; ValueError (NoFloat) for any other text
FloatOf(s) ==
    LET signed == s # "" /\ Head(s) \in {"-", "+"}
        body == IF signed THEN Tail(s) ELSE s
        sign == IF signed /\ Head(s) = "-" THEN -1 ELSE 1
        dots == {k \in 1 .. Len(body) : SubSeq(body, k, k) = "."}
    IN  IF body = "" \/ Cardinality(dots) > 1 THEN NoFloat
        ELSE IF dots = {}
        THEN LET v == DigitsValue(body, 0)
             IN  IF v < 0 THEN NoFloat ELSE [ok |-> TRUE, h |-> sign * 100 * v]
        ELSE LET k == CHOOSE d \in dots : TRUE
                 whole == SubSeq(body, 1, k - 1)
                 frac == SubSeq(body, k + 1, Len(body))
                 w == DigitsValue(whole, 0)
                 f == DigitsValue(frac, 0)
             IN  IF (whole = "" /\ frac = "") \/ w < 0 \/ f < 0 \/ Len(frac) > 2
                 THEN NoFloat
                 ELSE [ok |-> TRUE,
                       h |-> sign * (100 * w + (IF Len(frac) = 1 THEN 10 * f ELSE f))]

\* what binary floating point leaves open: whether two values with decimals
\* that differ by 1 subtract to exactly 1 (one), and whether a distance of
\* exactly 0.01 compares below 0.01 for chosen * 10 (mul) and chosen / 10 (div)
FloatEnvs == [one : BOOLEAN, mul : BOOLEAN, div : BOOLEAN]

\* abs(correct_num - chosen_num) == 1, on hundredths
DiffIsOne(c, ch, fl) ==
    /\ Abs(c - ch) = 100
    /\ (c % 100 = 0 /\ ch % 100 = 0) \/ fl.one

\* abs(correct_num - chosen_num * 10) < 0.01, on hundredths
NearTimesTen(c, ch, fl) ==
    \/ Abs(c - ch * 10) < 1
    \/ Abs(c - ch * 10) = 1 /\ fl.mul

\* abs(correct_num - chosen_num / 10) < 0.01, on thousandths
NearOverTen(c, ch, fl) ==
    \/ Abs(10 * c - ch) < 10
    \/ Abs(10 * c - ch) = 10 /\ fl.div

\* question.meta.get(key)
MetaGet(q, key) == IF key \in DOMAIN q.meta THEN q.meta[key] ELSE None

\* the body of the outer try, with chosen_value already indexed
TagOf(q, correct_value, chosen_value, fl) ==
    LET type == MetaGet(q, "type")
        pattern == MetaGet(q, "pattern")
    IN  IF type \in {"integer_arithmetic", "decimal_arithmetic"}
        THEN LET correct_num == FloatOf(correct_value)
                 chosen_num == FloatOf(chosen_value)
             IN  IF ~correct_num.ok \/ ~chosen_num.ok THEN "other"
                 ELSE IF DiffIsOne(correct_num.h, chosen_num.h, fl) THEN "off-by-one"
                 ELSE IF \/ NearTimesTen(correct_num.h, chosen_num.h, fl)
                         \/ NearOverTen(correct_num.h, chosen_num.h, fl)
                 THEN "decimal-place"
                 ELSE "other"
        ELSE IF type \in {"fraction_arithmetic", "mixed_fractions"}
        THEN "fraction-reduction"
        ELSE IF type = "sequence"
        THEN CASE pattern = "geometric" -> "wrong-ratio"
               [] pattern = "alternating" -> "interleave-swap"
               [] pattern = "fibonacci" -> "fib-near"
               [] OTHER -> "other"
        ELSE "other"

\* _generate_error_tag(question, chosen): the chosen option is indexed as a
\* Python list is, -5 to -1 counting from the end; TypeError and IndexError
\* are caught and give "other"
GenerateErrorTag(q, chosen, fl) ==
    LET correct_value == q.options[Ord(q.answer_letter) + 1]
        code == OrdChar(chosen)
        k == code - 65
    IN  IF code < 0 THEN "other"
        ELSE IF k >= Len(q.options) \/ k < -Len(q.options) THEN "other"
        ELSE TagOf(q, correct_value,
                   q.options[IF k < 0 THEN k + Len(q.options) + 1 ELSE k + 1], fl)

\* option texts a question can carry: whole numbers, two-decimal numbers around
\* 0.11 and 1.11, texts that are no numbers, and the terms of a sequence
TaggerOptions ==
    {<<"12", "13", "11", "120", "1">>,
     <<"0.11", "1.10", "0.01", "0.12", "0.10">>,
     <<"1.11", "11.10", "0.11", "1.12", "2.11">>,
     <<"1/2", "1 1/2", "abc", "3", "">>,
     <<"20", "21", "19", "23", "200">>}

\* the meta of the numeric types and of the sequence patterns, and one
\* without a type
TaggerMetas ==
    {[type |-> t, correct_answer |-> "", latex |-> TRUE] :
        t \in {"integer_arithmetic", "decimal_arithmetic", "fraction_arithmetic",
               "mixed_fractions", "percentages"}}
    \cup {[type |-> "sequence", pattern |-> p, terms |-> <<>>, latex |-> FALSE] :
            p \in {"arithmetic", "geometric", "alternating", "fibonacci"}}
    \cup {[latex |-> FALSE]}

\* the questions the tagger is given: every one passed Question's validation
TaggerQuestions ==
    {NewQuestion("?", options, letter, "", meta) :
        options \in TaggerOptions, letter \in {"A", "B", "C", "D", "E"},
        meta \in TaggerMetas}

\* the chosen values: the letters, None, the export's 'Unanswered', the
\* combobox placeholder, the empty string, and single characters before and
\* after the letters
TaggerChosen ==
    {"A", "B", "C", "D", "E", None, "Unanswered", "Select Answer", "",
     "F", "a", "@", "<", ";"}

InitTagger ==
    /\ pc = "idle"
    /\ depth = 0
    /\ question \in TaggerQuestions
    /\ locals \in [fn : {"_generate_error_tag"}, chosen : TaggerChosen,
                   fl : FloatEnvs]
    /\ hashseed = 0
    /\ rng = 0
    /\ factories = <<>>
    /\ sessions = <<NoSession, NoSession>>

\* self._generate_error_tag(question, chosen) returns its tag
GenerateErrorTagCall ==
    /\ pc = "idle"
    /\ pc' = "tagged"
    /\ locals' = [fn |-> locals.fn, chosen |-> locals.chosen, fl |-> locals.fl,
                  tag |-> GenerateErrorTag(question, locals.chosen, locals.fl)]
    /\ UNCHANGED <<depth, question, hashseed, rng, factories, sessions>>

NextTagger == GenerateErrorTagCall

SpecTagger == InitTagger /\ [][NextTagger]_vars

(* Claims about the error tagger (SpecTagger). *)
Tagged == pc = "tagged"

ErrorTags ==
    {"off-by-one", "decimal-place", "fraction-reduction", "wrong-ratio",
     "interleave-swap", "fib-near", "other"}

\* C16: the error tagger never raises, whatever the chosen value and the
\* option texts: it returns one of its tags; and for a chosen value that is
\* not one of the letters A to E ('Unanswered' included) the tag is 'other'.
C16_OtherOutsideLetters ==
    Tagged =>
        /\ locals.tag \in ErrorTags
        /\ locals.chosen \notin {"A", "B", "C", "D", "E"} => locals.tag = "other"

\* the tag the rule gives for a chosen letter, with exact decimal arithmetic on
\* the option texts (hundredths; thousandths for chosen / 10)
RuleTag(q, chosen) ==
    LET type == MetaGet(q, "type")
        c == FloatOf(AnswerOption(q))
        ch == FloatOf(q.options[Ord(chosen) + 1])
    IN  IF type \in {"integer_arithmetic", "decimal_arithmetic"}
        THEN IF ~c.ok \/ ~ch.ok THEN "other"
             ELSE IF Abs(c.h - ch.h) = 100 THEN "off-by-one"
             ELSE IF Abs(c.h - 10 * ch.h) < 1 \/ Abs(10 * c.h - ch.h) < 10
             THEN "decimal-place"
             ELSE "other"
        ELSE IF type \in {"fraction_arithmetic", "mixed_fractions"}
        THEN "fraction-reduction"
        ELSE IF type = "sequence" /\ MetaGet(q, "pattern") = "geometric"
        THEN "wrong-ratio"
        ELSE IF type = "sequence" /\ MetaGet(q, "pattern") = "alternating"
        THEN "interleave-swap"
        ELSE IF type = "sequence" /\ MetaGet(q, "pattern") = "fibonacci"
        THEN "fib-near"
        ELSE "other"

\* C17: for a chosen letter from A to E the tag follows the rule: in integer
\* and decimal arithmetic 'off-by-one' when correct and chosen differ by 1,
\* else 'decimal-place' when chosen * 10 or chosen / 10 is within 0.01 of
\* correct, else 'other'; 'fraction-reduction' for the two fraction types;
\* 'wrong-ratio', 'interleave-swap', 'fib-near' for geometric, alternating and
\* fibonacci sequences; 'other' for everything else.
C17_TagRule ==
    (Tagged /\ locals.chosen \in {"A", "B", "C", "D", "E"}) =>
        locals.tag = RuleTag(question, locals.chosen)

(***************************************************************************)
(* App.export_to_csv: the rows handed to the csv writer, one dictionary    *)
(* per question.                                                           *)
(***************************************************************************)
\* answers[i] or "Unanswered": None and the empty string are falsy
ChosenOf(answer) == IF answer = None \/ answer = "" THEN "Unanswered" ELSE answer

\* the row of question q with the slot answer, the tag generated for it or not
Row(q, answer, tagged, fl) ==
    [question |-> q.prompt,
     A |-> q.options[1], B |-> q.options[2], C |-> q.options[3],
     D |-> q.options[4], E |-> q.options[5],
     correct |-> q.answer_letter,
     chosen |-> ChosenOf(answer),
     correctness |-> IF ChosenOf(answer) = q.answer_letter THEN "Correct"
                     ELSE "Incorrect",
     time_spent |-> "",
     error_tag |-> IF tagged THEN GenerateErrorTag(q, ChosenOf(answer), fl) ELSE ""]

\* the rows with a tag generated for every question
RECURSIVE ExportRowsTagAll(_, _, _)
ExportRowsTagAll(mode, n, fl) ==
    IF n = 0 THEN <<>>
    ELSE Append(ExportRowsTagAll(mode, n - 1, fl),
                Row(mode.questions[n], mode.answers[n], TRUE, fl))

\* the loop of export_to_csv over the first n questions: the tag is generated
\* for the rows that are "Incorrect"
RECURSIVE ExportRows(_, _, _)
ExportRows(mode, n, fl) ==
    IF n = 0 THEN <<>>
    ELSE Append(ExportRows(mode, n - 1, fl),
                Row(mode.questions[n], mode.answers[n],
                    ChosenOf(mode.answers[n]) # mode.questions[n].answer_letter, fl))

\* export_to_csv(filename), from the results screen: nothing is written without
\* a current mode
ExportToCsv ==
    /\ Started(1)
    /\ pc = "idle"
    /\ pc' = "exported"
    /\ \E fl \in FloatEnvs :
            locals' = [fn |-> "export_to_csv",
                       rows |-> ExportRows(sessions[1], Len(sessions[1].questions), fl)]
    /\ UNCHANGED <<depth, question, hashseed, rng, factories, sessions>>

NextApp ==
    \/ \E kind \in Kinds, seed \in Seeds \cup {NoSeed},
          practice_mode \in BOOLEAN, shuffle_options \in BOOLEAN :
            StartTest(kind, seed, practice_mode, shuffle_options)
    \/ \E answer \in AnswerValues : SetAnswer(answer)
    \/ PreviousQuestion
    \/ NextQuestion
    \/ ExportToCsv

SpecApp == InitSessions /\ [][NextApp]_vars

(* Claims about the export (SpecApp). *)
Exported == pc = "exported"

\* C18: the export writes one row per question, in the questions' order; the
\* chosen column holds the letter recorded for the question, or the literal
\* 'Unanswered' when none was recorded; the error_tag column is non-empty only
\* in rows whose correctness is 'Incorrect'.
C18_ExportRows ==
    Exported =>
        LET mode == sessions[1]
            rows == locals.rows
        IN  /\ Len(rows) = Len(mode.questions)
            /\ \A k \in 1 .. Len(rows) :
                    /\ rows[k].question = mode.questions[k].prompt
                    /\ <<rows[k].A, rows[k].B, rows[k].C, rows[k].D, rows[k].E>>
                            = mode.questions[k].options
                    /\ rows[k].correct = mode.questions[k].answer_letter
                    /\ mode.answers[k] \in {"A", "B", "C", "D", "E"} =>
                            rows[k].chosen = mode.answers[k]
                    /\ mode.answers[k] = None => rows[k].chosen = "Unanswered"
                    /\ rows[k].correctness \in {"Correct", "Incorrect"}
                    /\ rows[k].correctness = "Correct" <=>
                            mode.answers[k] = mode.questions[k].answer_letter
                    /\ rows[k].error_tag # "" => rows[k].correctness = "Incorrect"

\* C18 witness: a test of two questions was exported with its first question
\* answered correctly and its second left unanswered, which is tagged
C18_Witness ==
    /\ Exported
    /\ Len(locals.rows) = 2
    /\ locals.rows[1].correctness = "Correct"
    /\ locals.rows[1].error_tag = ""
    /\ locals.rows[2].chosen = "Unanswered"
    /\ locals.rows[2].error_tag = "other"

(***************************************************************************)
(* Question(prompt, options, answer_letter, explanation, meta) on its own: *)
(* the arguments are drawn, the dataclass is constructed.                  *)
(***************************************************************************)
MaxOptions == 6

\* lists of up to MaxOptions option texts, repeated texts included
OptionLists == UNION {[1 .. n -> {"1", "2"}] : n \in 0 .. MaxOptions}

\* answer letters: the five, the next one, a lower-case one, two letters,
\* the empty string and None
LetterArgs == {"A", "B", "C", "D", "E", "F", "a", "AB", "", None}

InitQuestion ==
    /\ pc = "idle"
    /\ depth = 0
    /\ question = None
    /\ locals \in [fn : {"__post_init__"}, options : OptionLists,
                   answer_letter : LetterArgs]
    /\ hashseed = 0
    /\ rng = 0
    /\ factories = <<>>
    /\ sessions = <<NoSession, NoSession>>

\* the constructor returns the Question or raises ValueError
PostInit ==
    /\ pc = "idle"
    /\ pc' = "constructed"
    /\ question' = NewQuestion("?", locals.options, locals.answer_letter, "",
                               [latex |-> FALSE])
    /\ UNCHANGED <<depth, locals, hashseed, rng, factories, sessions>>

NextQuestionInit == PostInit

SpecQuestion == InitQuestion /\ [][NextQuestionInit]_vars

(* Claims about the Question's validation (SpecQuestion). *)
\* C19: constructing a Question raises the validation error exactly when the
\* options are not five or the answer letter is not one of A to E, and gives
\* the Question with its arguments otherwise: the third check, that the
\* indexed option is among the options, never fails.
C19_Validation ==
    pc = "constructed" =>
        IF Len(locals.options) # 5
            \/ locals.answer_letter \notin {"A", "B", "C", "D", "E"}
        THEN question = ValueError
        ELSE /\ IsQuestion(question)
             /\ question.options = locals.options
             /\ question.answer_letter = locals.answer_letter

\* C19 witness: five options of which four are the same were accepted with
\* letter E, and so passed the third check
C19_Witness ==
    /\ pc = "constructed"
    /\ IsQuestion(question)
    /\ question.options = <<"1", "1", "1", "1", "2">>
    /\ question.answer_letter = "E"

C21_InRange ==
    /\ (Returned /\ locals.fn = "_geometric_sequence") =>
            /\ locals.ratio \in 2 .. 5
            /\ locals.start \in 1 .. 5
            /\ \A k \in 1 .. 6 :
                    locals.terms[k] = locals.start * Pow(locals.ratio, k - 1)
            /\ locals.terms[6] <= 1000
            /\ question.meta.terms = locals.terms
            /\ question.prompt = PromptOf(locals.terms)
    /\ (Returned /\ locals.fn = "_arithmetic_sequence") =>
            /\ locals.step \in (-9 .. 9) \ {0}
            /\ locals.start \in 1 .. 20
            /\ \A k \in 1 .. 6 :
                    /\ locals.terms[k] = locals.start + (k - 1) * locals.step
                    /\ Abs(locals.terms[k]) <= 100
            /\ question.meta.terms = locals.terms
            /\ question.prompt = PromptOf(locals.terms)

\* C21 witness: the largest geometric sequence that is kept, 4 * 3^i with the
\* sixth term 972, was returned
C21_Witness ==
    /\ Returned
    /\ locals.fn = "_geometric_sequence"
    /\ locals.ratio = 3
    /\ locals.start = 4
    /\ question.meta.terms[6] = 972

\* C22: regeneration is a bounded retry with a hard cap: whatever the draws,
\* the regenerations of one call of generate_question stay below a fixed
\* number.  The generators carry no cap of their own, so the number is the
\* bound MaxDepth put on the recursion here.
C22_BoundedRetry == depth < MaxDepth

\* the strings of the integers from lo to hi
Numerals(lo, hi) == {e[1] : e \in {t \in StrTable : t[2] >= lo /\ t[2] <= hi}}

\* the four distractor candidates of integer_arithmetic for the correct value c
IntegerCandidates(c) == {Str(c + 1), Str(c - 1), Str(c * 10), Str(c \div 10)}

\* C23: for integer_arithmetic the distractor candidates are correct + 1,
\* correct - 1, correct * 10 and correct div 10; every one of them and the
\* correct answer is among the returned options, every other option is a
\* filler from 1 to 999, and there is such an option only when the correct
\* answer and the candidates were fewer than 5 distinct values.
C23_IntegerDistractors ==
    (Returned /\ locals.fn = "_integer_arithmetic") =>
        LET rule == {Str(locals.result)} \cup IntegerCandidates(locals.result)
        IN  /\ locals.correct_answer = Str(locals.result)
            /\ rule \subseteq Range(question.options)
            /\ Range(question.options) \subseteq rule \cup Numerals(1, 999)
            /\ Cardinality(rule) = 5 => Range(question.options) = rule
            /\ Cardinality({k \in 1 .. 5 : question.options[k] \notin rule})
                    <= 5 - Cardinality(rule)

\* C23 witness: 2 - 1 = 1, whose candidates 1 - 1 and 1 div 10 are both 0,
\* was returned with 2, 0, 10 and the filler 3
C23_Witness ==
    /\ Returned
    /\ locals.fn = "_integer_arithmetic"
    /\ locals.result = 1
    /\ Range(question.options) = {"1", "2", "0", "10", "3"}

\* the four rule-derived distractor candidates of the question just returned,
\* in the order the rule lists them
RuleCandidates ==
    IF question.meta.type = "sequence"
    THEN Tail(SequenceOptions(locals.correct_answer, question.meta.pattern,
                              question.meta.terms))
    ELSE Tail(NumericOptions(locals.correct_answer, question.meta.type, <<>>, 1,
                             [hashseed |-> hashseed, tieUp |-> FALSE]))

\* C24: for every integer_arithmetic question and every sequence question
\* none of the four rule-derived distractor candidates equals the correct
\* answer.
C24_CandidatesWrong ==
    (Returned /\ question.meta.type \in {"integer_arithmetic", "sequence"}) =>
        /\ Len(RuleCandidates) = 4
        /\ locals.correct_answer \notin Range(RuleCandidates)

\* C25: for geometric, polynomial (squares and cubes) and fibonacci questions
\* the correct answer and the four rule-derived candidates are five pairwise
\* distinct values, so the padding loop does not run: the returned options are
\* exactly these five.
C25_NoPadding ==
    (/\ Returned
     /\ question.meta.type = "sequence"
     /\ question.meta.pattern \in {"geometric", "n² pattern", "n³ pattern", "fibonacci"}) =>
        LET rule == {locals.correct_answer} \cup Range(RuleCandidates)
        IN  /\ Cardinality(rule) = 5
            /\ PadCount(Cardinality(rule)) = 0
            /\ Range(question.options) = rule

\* C25 witness: the fibonacci question on 1, 1, 2, 3, 5, 8 was returned with
\* its answer 13 and the candidates 5, 11, 14 and 16
C25_Witness ==
    /\ Returned
    /\ locals.fn = "_fibonacci_sequence"
    /\ question.meta.terms = <<1, 1, 2, 3, 5, 8>>
    /\ Range(question.options) = {"13", "5", "11", "14", "16"}

(* Claims about browsing (SpecApp). *)
\* the current index is inside the questions of the test on screen
IndexInside ==
    (Running /\ Len(sessions[1].questions) >= 1) =>
        /\ sessions[1].current_question_index >= 0
        /\ sessions[1].current_question_index <= Len(sessions[1].questions) - 1

\* the index after a call of previous_question and of next_question
Browsed ==
    LET idx == sessions[1].current_question_index
        last == Len(sessions[1].questions) - 1
    IN  /\ PreviousQuestion =>
                sessions'[1].current_question_index = IF idx = 0 THEN 0 ELSE idx - 1
        /\ NextQuestion =>
                sessions'[1].current_question_index
                    = IF idx = last THEN last ELSE idx + 1
        /\ (PreviousQuestion \/ NextQuestion) =>
                /\ sessions'[1].questions = sessions[1].questions
                /\ sessions'[1].answers = sessions[1].answers

\* C26: in a session with at least one question the current index stays
\* within 0 .. len(questions) - 1 after any calls of previous_question and
\* next_question: previous at index 0 and next at the last index leave it
\* unchanged, every other call moves it by exactly one.
C26_IndexInRange == []IndexInside /\ [][Browsed]_vars

\* C26 witness: the test was browsed to its last question and nothing was
\* answered
C26_Witness ==
    /\ Running
    /\ Len(sessions[1].questions) = 2
    /\ sessions[1].current_question_index = 1
    /\ \A k \in 1 .. 2 : sessions[1].answers[k] = None

(***************************************************************************)
(* Timer (models/timer.py) under Tk's event loop.  A timer lives in a      *)
(* world w: the clock time.time() reads (w.now), the queue of _tick calls  *)
(* scheduled with after (w.after, each by the time it is due), and the     *)
(* callbacks the handler on the stack has invoked so far (w.called).       *)
(* Times are counted in clock units, TicksPerSecond of them to a second.   *)
(***************************************************************************)
\* clock units to a second; after(1000, ...) is due this many units later
TicksPerSecond == 2
\* the longest countdown followed, in seconds
MaxSeconds == 2
\* the last clock value followed
MaxTime == 7
\* the scheduled _tick calls that may be pending together
MaxPending == 3

\* Timer.__init__; start_time None is 0 (both are false), a callback is
\* TRUE when one was passed and FALSE when it is None
NewTimer(initial_seconds, tick_callback, finish_callback) ==
    [initial_seconds |-> initial_seconds,
     remaining_seconds |-> initial_seconds,
     tick_callback |-> tick_callback,
     finish_callback |-> finish_callback,
     is_running |-> FALSE,
     start_time |-> 0,
     elapsed_seconds |-> 0]

\* _tick on expiry carrying on as if time were left
TickNoExpiry(w) ==
    LET t == w.timer
        elapsed == IF t.start_time # 0 THEN w.now - t.start_time ELSE 0
        total_elapsed == t.elapsed_seconds + elapsed
        remaining == Max(0, t.initial_seconds - total_elapsed)
    IN  IF ~t.is_running THEN w
        ELSE [w EXCEPT !.timer.remaining_seconds = remaining,
                       !.called = IF t.tick_callback
                                  THEN Append(@, [callback |-> "tick_callback", arg |-> remaining])
                                  ELSE @,
                       !.after = Append(@, w.now + TicksPerSecond)]

\* Timer._tick
Tick(w) ==
    LET t == w.timer
        elapsed == IF t.start_time # 0 THEN w.now - t.start_time ELSE 0
        total_elapsed == t.elapsed_seconds + elapsed
        remaining == Max(0, t.initial_seconds - total_elapsed)
    IN  IF ~t.is_running THEN w
        ELSE IF t.initial_seconds > 0
        THEN LET ticked == IF t.tick_callback
                           THEN Append(w.called, [callback |-> "tick_callback", arg |-> remaining])
                           ELSE w.called
             IN  IF remaining <= 0
                 THEN [w EXCEPT !.timer.remaining_seconds = remaining,
                                !.timer.is_running = FALSE,
                                !.called = IF t.finish_callback
                                           THEN Append(ticked, [callback |-> "finish_callback", arg |-> 0])
                                           ELSE ticked]
                 ELSE [w EXCEPT !.timer.remaining_seconds = remaining,
                                !.called = ticked,
                                !.after = Append(@, w.now + TicksPerSecond)]
        ELSE [w EXCEPT !.called = IF t.tick_callback
                                  THEN Append(@, [callback |-> "tick_callback", arg |-> total_elapsed])
                                  ELSE @,
                       !.after = Append(@, w.now + TicksPerSecond)]

\* Timer.start
Start(w) == Tick([w EXCEPT !.timer.is_running = TRUE, !.timer.start_time = w.now])

\* Timer.stop
Stop(w) == [w EXCEPT !.timer.is_running = FALSE]

\* Timer.pause
Pause(w) ==
    IF w.timer.is_running /\ w.timer.start_time # 0
    THEN [w EXCEPT !.timer.elapsed_seconds = @ + (w.now - w.timer.start_time),
                   !.timer.is_running = FALSE]
    ELSE w

\* Timer.resume
Resume(w) ==
    IF ~w.timer.is_running
    THEN Tick([w EXCEPT !.timer.start_time = w.now, !.timer.is_running = TRUE])
    ELSE w

\* start_timer giving the practice mode a countdown too
StartTimerCountdown(mode, w, tick_callback, finish_callback) ==
    Start([timer |-> NewTimer(Min(GetTimerSeconds(mode.kind), MaxSeconds) * TicksPerSecond,
                              tick_callback, finish_callback),
           start_time |-> w.now,
           now |-> w.now,
           after |-> w.after,
           called |-> w.called])

\* the countdown of a mode, get_timer_seconds, cut to the model's bound and
\* counted in clock units
TimerSeconds(kind) == Min(GetTimerSeconds(kind), MaxSeconds) * TicksPerSecond

\* BaseMode.start_timer in the world w, which has no timer yet
StartTimer(mode, w, tick_callback, finish_callback) ==
    LET timer_seconds == IF ~mode.practice_mode THEN TimerSeconds(mode.kind)
                         ELSE -1
    IN  Start([timer |-> NewTimer(timer_seconds, tick_callback, finish_callback),
               start_time |-> w.now,
               now |-> w.now,
               after |-> w.after,
               called |-> w.called])

(***************************************************************************)
(* The review screen's re-drill (SpecRedrill): a finished session of up to *)
(* MaxRedrill questions is on review, with any of its questions answered   *)
(* rightly and the others left unanswered or answered wrongly.             *)
(***************************************************************************)
\* the questions of a session on review
MaxRedrill == 11

\* the loop of redrill_mistakes counting only the wrong letters
MistakesWrongLetter(mode, n) ==
    SelectSeq([k \in 1 .. n |-> IF mode.answers[k] \in {None, "", "Select Answer"}
                                THEN None ELSE mode.questions[k]],
              LAMBDA q : IsQuestion(q))

\* the loop of redrill_mistakes over the first n questions
RECURSIVE Mistakes(_, _)
Mistakes(mode, n) ==
    IF n = 0 THEN <<>>
    ELSE LET answer == mode.answers[n]
             q == mode.questions[n]
             mistakes == Mistakes(mode, n - 1)
         IN  IF answer \in {None, ""} \/ answer = "Select Answer"
                \/ answer # q.answer_letter
             THEN Append(mistakes, q)
             ELSE mistakes

\* ReviewScreen.redrill_mistakes, called from the review screen (pc = "idle")
\* of a finished session: a session without mistakes stays as it is; otherwise
\* a new mode of the same type and seed holds the first ten mistakes and its
\* timer is started without callbacks
Redrill ==
    /\ Started(1)
    /\ pc = "idle"
    /\ \E found \in {Mistakes(sessions[1], Len(sessions[1].questions))} :
        \E mistakes \in {SubSeq(found, 1, Min(10, Len(found)))} :
            IF Len(mistakes) = 0
            THEN /\ pc' = "no_mistakes"
                 /\ UNCHANGED <<locals, sessions>>
            ELSE \E new_mode \in {[kind |-> sessions[1].kind,
                                   seed |-> sessions[1].seed,
                                   practice_mode |-> TRUE,
                                   shuffle_options |-> FALSE,
                                   raised |-> FALSE,
                                   questions |-> mistakes,
                                   generated |-> <<>>,
                                   answers |-> [k \in 1 .. Len(mistakes) |-> None],
                                   current_question_index |-> 0]} :
                    /\ pc' = "redrilled"
                    /\ sessions' = [sessions EXCEPT ![1] = new_mode]
                    /\ locals' = StartTimer(new_mode, locals, FALSE, FALSE)
    /\ UNCHANGED <<depth, question, hashseed, rng, factories>>

\* a session of n generated questions that was answered and finished: its
\* user was right at the slots of right and left the others at None, at the
\* placeholder or at another letter
InitRedrill ==
    /\ pc = "idle"
    /\ depth = 0
    /\ locals = [now |-> 1, after |-> <<>>, called |-> <<>>]
    /\ question = None
    /\ hashseed \in 0 .. (HashSeeds - 1)
    /\ factories = <<>>
    /\ \E kind \in Kinds, seed \in Seeds \cup {NoSeed}, s \in FreshStates,
          n \in 0 .. MaxRedrill :
        \E g \in {GenerateSession(kind, TRUE, Env(hashseed), n,
                                  [questions |-> <<>>, generated |-> <<>>,
                                   rng |-> QuestionGeneratorInit(seed, s),
                                   raised |-> FALSE])} :
            /\ ~g.raised
            /\ rng = g.rng
            /\ \E right \in SUBSET (1 .. n) :
                sessions = <<[kind |-> kind,
                              seed |-> seed,
                              practice_mode |-> FALSE,
                              shuffle_options |-> TRUE,
                              raised |-> FALSE,
                              questions |-> g.questions,
                              generated |-> g.generated,
                              answers |-> [k \in 1 .. n |->
                                  IF k \in right THEN g.questions[k].answer_letter
                                  ELSE IF (k + n) % 3 = 0 THEN None
                                  ELSE IF (k + n) % 3 = 1 THEN "Select Answer"
                                  ELSE Chr((Ord(g.questions[k].answer_letter) + 1) % 5)],
                              current_question_index |-> 0],
                             NoSession>>

SpecRedrill == InitRedrill /\ [][Redrill]_vars

\* a call of redrill_mistakes and the session it leaves
Redrilled ==
    Redrill =>
        \E S \in {{k \in 1 .. Len(sessions[1].questions) :
                     \/ sessions[1].answers[k] \in {None, "Select Answer"}
                     \/ sessions[1].answers[k] # sessions[1].questions[k].answer_letter}} :
            IF S = {}
            THEN sessions' = sessions
            ELSE \E kept \in {{k \in S : Cardinality({j \in S : j < k}) < 10}} :
                    /\ Len(sessions'[1].questions) = Cardinality(kept)
                    /\ \A k \in kept :
                          sessions'[1].questions[Cardinality({j \in S : j < k}) + 1]
                              = sessions[1].questions[k]
                    /\ Len(sessions'[1].answers) = Cardinality(kept)
                    /\ \A i \in 1 .. Cardinality(kept) : sessions'[1].answers[i] = None
                    /\ sessions'[1].current_question_index = 0
                    /\ sessions'[1].practice_mode = TRUE
                    /\ sessions'[1].shuffle_options = FALSE

\* C27: re-drill builds a new session whose questions are exactly the first
\* up-to-10 questions of the current session, in original order, that are
\* unanswered or answered with a letter different from answer_letter; its
\* answers are all None, its index is 0, practice_mode is True and
\* shuffle_options is False; a session without such a question is left
\* unchanged.
C27_Redrill == [][Redrilled]_vars

\* C27 witness: a re-drilled session of ten questions in practice mode, its
\* timer running
C27_Witness ==
    /\ pc = "redrilled"
    /\ Len(sessions[1].questions) = 10
    /\ sessions[1].practice_mode
    /\ locals.timer.is_running

(***************************************************************************)
(* A timed test under Tk's event loop (SpecTimer).  pc names the handler   *)
(* the loop ran last; w.called holds the callbacks that handler invoked.   *)
(***************************************************************************)
\* start_numeric_test / start_sequence_test with the timer: the mode is
\* initialized and its timer is started with the app's two callbacks
StartTimedTest(kind, seed, practice_mode, shuffle_options) ==
    /\ pc = "idle"
    /\ InitializeMode(1, kind, seed, practice_mode, shuffle_options)
    /\ IF sessions'[1].raised
       THEN pc' = "raised" /\ locals' = locals
       ELSE /\ pc' = "start_timer"
            /\ locals' = StartTimer(sessions'[1], locals, TRUE, TRUE)
    /\ UNCHANGED <<depth, question>>

\* a process at its menu, no test started
InitTimer ==
    /\ pc = "idle"
    /\ depth = 0
    /\ locals = [now |-> 1, after |-> <<>>, called |-> <<>>]
    /\ question = None
    /\ hashseed \in 0 .. (HashSeeds - 1)
    /\ rng \in FreshStates
    /\ factories = <<>>
    /\ sessions = <<NoSession, NoSession>>

\* one turn of the event loop: a test is started, a method of the timer is
\* called, the scheduled _tick that is due is run, or time passes while none
\* is due
NextTimer ==
    \/ \E kind \in Kinds, seed \in Seeds, practice_mode \in BOOLEAN,
          shuffle_options \in BOOLEAN :
            StartTimedTest(kind, seed, practice_mode, shuffle_options)
    \/ /\ pc \notin {"idle", "raised"}
       /\ UNCHANGED <<depth, question, hashseed, rng, factories, sessions>>
       /\ LET w == [locals EXCEPT !.called = <<>>]
              Ran(handler, world) == pc' = handler /\ locals' = world
          IN  \/ Len(w.after) < MaxPending /\ Ran("start", Start(w))
              \/ Ran("stop", Stop(w))
              \/ Ran("pause", Pause(w))
              \/ Len(w.after) < MaxPending /\ Ran("resume", Resume(w))
              \/ /\ Len(w.after) > 0
                 /\ Head(w.after) <= w.now
                 /\ Ran("_tick", Tick([w EXCEPT !.after = Tail(@)]))
              \/ /\ \A k \in 1 .. Len(w.after) : w.after[k] > w.now
                 /\ w.now < MaxTime
                 /\ Ran("mainloop", [w EXCEPT !.now = @ + 1])

SpecTimer == InitTimer /\ [][NextTimer]_vars

(* Claims about the timer (SpecTimer). *)
\* the timer of the test has been made
Timed == pc \notin {"idle", "raised"}

\* the time a timer has run in all, as _tick computes it in the world w
TotalElapsed(w) ==
    w.timer.elapsed_seconds
        + (IF w.timer.start_time # 0 THEN w.now - w.timer.start_time ELSE 0)

\* the calls of callback among the callbacks a handler invoked
CallsOf(called, callback) ==
    Cardinality({k \in 1 .. Len(called) : called[k].callback = callback})

\* a scheduled _tick finds the countdown running with its time used up
ExpiryTick ==
    (/\ Timed
     /\ pc' = "_tick"
     /\ locals.timer.is_running
     /\ locals.timer.initial_seconds > 0
     /\ TotalElapsed(locals) >= locals.timer.initial_seconds) =>
        /\ locals'.timer.remaining_seconds = 0
        /\ ~locals'.timer.is_running
        /\ CallsOf(locals'.called, "finish_callback") = 1
        /\ locals'.after = Tail(locals.after)

\* a handler other than start and resume finds the timer not running
StaysStopped ==
    (/\ Timed
     /\ ~locals.timer.is_running
     /\ pc' \notin {"start", "resume"}) =>
        /\ locals'.called = <<>>
        /\ ~locals'.timer.is_running
        /\ Len(locals'.after) <= Len(locals.after)

\* C28: in countdown mode a running Timer whose total elapsed time reaches
\* initial_seconds sets remaining_seconds to 0, becomes not running and invokes
\* finish_callback exactly once on that tick; it schedules no further tick,
\* and no tick_callback or finish_callback is invoked afterwards unless the
\* timer is started or resumed again.
C28_Expiry == [][ExpiryTick /\ StaysStopped]_vars

\* C28 witness: the countdown of a timed test ran out on a scheduled tick,
\* which reported 0, called finish_callback and left nothing scheduled
C28_Witness ==
    /\ pc = "_tick"
    /\ ~sessions[1].practice_mode
    /\ locals.called = <<[callback |-> "tick_callback", arg |-> 0], [callback |-> "finish_callback", arg |-> 0]>>
    /\ ~locals.timer.is_running
    /\ locals.timer.remaining_seconds = 0
    /\ locals.after = <<>>

\* the timer of a practice session counts up and reports the time run
CountsUp ==
    (Timed /\ sessions[1].practice_mode) =>
        /\ locals.timer.initial_seconds <= 0
        /\ \A k \in 1 .. Len(locals.called) :
              locals.called[k] = [callback |-> "tick_callback", arg |-> TotalElapsed(locals)]

\* a scheduled _tick of a running practice timer reports and is rescheduled
ElapsedTick ==
    (/\ Timed
     /\ sessions[1].practice_mode
     /\ pc' = "_tick"
     /\ locals.timer.is_running) =>
        /\ Len(locals'.called) = 1
        /\ locals'.timer.is_running
        /\ locals'.after = Append(Tail(locals.after), locals.now + TicksPerSecond)

\* C29: in practice mode the session has no time limit: start_timer creates
\* the Timer with a non-positive duration, so every tick takes the
\* elapsed-time branch, reports the total elapsed time to tick_callback, and
\* finish_callback is never invoked however long the session lasts.
C29_PracticeUntimed == []CountsUp /\ [][ElapsedTick]_vars

\* C29 witness: a practice session longer than the longest countdown, whose
\* scheduled tick reported the time run
C29_Witness ==
    /\ pc = "_tick"
    /\ sessions[1].practice_mode
    /\ Len(locals.called) = 1
    /\ locals.called[1].arg > MaxSeconds * TicksPerSecond
    /\ locals.timer.is_running

\* C30: a Timer has at most one live tick chain: after any sequence of start,
\* stop, pause and resume calls interleaved with the firing of scheduled
\* ticks, at most one scheduled _tick is pending that will run its body.
C30_OneTickChain ==
    (Timed /\ locals.timer.is_running) => Len(locals.after) <= 1

=============================================================================
